---- MODULE Spec2Model ----
(***************************************************************************)
(* zlist.h: the per-type doubly-linked-list engine generated by            *)
(* ZLIST_GENERATE_IMPL(T, Name), modelled over a bounded heap of nodes.    *)
(* A node pointer is a node id, NULL is 0.  Every engine function is an    *)
(* operator from a memory record (list handles, node fields, allocated     *)
(* set) to the memory it leaves, written statement by statement; every     *)
(* action is one call of a public function by the client program.          *)
(***************************************************************************)
EXTENDS Integers, Sequences, FiniteSets, TLC

\* ---------------------------------------------------------------- bounds
\* the number of node blocks the heap can hand out
MaxNodes == 3
\* the statements a function body executes at most
MaxLines == 3

\* ------------------------------------------------------ program constants
Z_OK == 0
Z_ENOMEM == -2
Z_EEMPTY == -4

NULL == 0
Nodes == 1..MaxNodes
Ptr == Nodes \cup {NULL}
\* T: the element type of the instance; the engine copies values and never
\* inspects them, two of them tell every order of elements apart
Values == {1, 2}
Lists == {1, 2}

VARIABLES
    lists,      \* lists[l] = [head, tail, length]: the zlist_##Name handles
    nodes,      \* nodes[n] = [prev, next, value]: the zlist_node_##Name fields
    live,       \* nodes handed out by ZLIST_MALLOC and not yet given to ZLIST_FREE
    detached,   \* nodes returned by detach_node and still held by the caller
    fault,      \* TRUE once a call wrote through NULL or a freed node, or looped forever
    last,       \* the last call: [op, ret, freed]: the function called, what it
                \* returned (res, a zres, for the safe API) and how many blocks
                \* it gave to ZLIST_FREE
    calls,      \* calls[l]: the successful pushes of a push-only run (SpecPush)
    alive,      \* the z_list::list<T> objects within their lifetime (SpecCpp)
    cursor,     \* the list_iterator the client holds: [list_ptr, current] (SpecWalk)
    frame       \* the call of a zres function with an autofree list: [pc, nums,
                \* line, ret] (SpecScope)

vars == <<lists, nodes, live, detached, fault, last, calls, alive, cursor, frame>>

\* ------------------------------------------------------------ the memory
\* The contents of a block the allocator owns are indeterminate; the model
\* keeps one representative so that free blocks are indistinguishable.
FreeBlock == [prev |-> NULL, next |-> NULL, value |-> 0]

EmptyList == [head |-> NULL, tail |-> NULL, length |-> 0]

Mem == [lists |-> lists, nodes |-> nodes, live |-> live, fault |-> fault]

\* n->prev, n->next, n->value
Prev(m, n) == IF n \in Nodes THEN m.nodes[n].prev ELSE NULL
Nxt(m, n) == IF n \in Nodes THEN m.nodes[n].next ELSE NULL
Val(m, n) == IF n \in Nodes THEN m.nodes[n].value ELSE 0

\* n->prev = x; n->next = x  (a store through NULL or a freed node is a fault)
SetPrev(m, n, x) ==
    IF n \in m.live THEN [m EXCEPT !.nodes[n].prev = x]
    ELSE [m EXCEPT !.fault = TRUE]

SetNext(m, n, x) ==
    IF n \in m.live THEN [m EXCEPT !.nodes[n].next = x]
    ELSE [m EXCEPT !.fault = TRUE]

\* l->head = x; l->tail = x; l->length = k
SetHead(m, l, x) == [m EXCEPT !.lists[l].head = x]
SetTail(m, l, x) == [m EXCEPT !.lists[l].tail = x]
SetLength(m, l, k) == [m EXCEPT !.lists[l].length = k]

\* ZLIST_MALLOC: NULL (always possible, certain once the heap is used up), or a
\* block the allocator still owns.  Free blocks are indistinguishable and the
\* node ids are interchangeable, so the first free block stands for any of them.
FirstFree(m) == CHOOSE n \in Nodes \ m.live : \A k \in Nodes \ m.live : n <= k
AllocOutcomes(m) == {NULL} \cup (IF Nodes \ m.live = {} THEN {} ELSE {FirstFree(m)})

\* zlist_create_node_##Name(val), a the block ZLIST_MALLOC returned
zlist_create_node(m, a, val) ==
    IF a # NULL
    THEN [m EXCEPT !.nodes[a] = [prev |-> NULL, next |-> NULL, value |-> val],
                   !.live = @ \cup {a}]
    ELSE m

\* zlist_free_node_##Name(n)
zlist_free_node(m, n) ==
    IF n \in m.live
    THEN [m EXCEPT !.nodes[n] = FreeBlock, !.live = @ \ {n}]
    ELSE [m EXCEPT !.fault = TRUE]

\* zlist_init_##Name()
zlist_init == EmptyList

\* zlist_is_empty_##Name(l)
zlist_is_empty(m, l) == m.lists[l].head = NULL

\* zlist_head_##Name(l) and zlist_tail_##Name(l)
zlist_head(m, l) == m.lists[l].head
zlist_tail(m, l) == m.lists[l].tail

\* zlist_reverse_##Name: the while (curr) loop, one node per unfolding
RECURSIVE reverse_loop(_, _, _, _)
reverse_loop(m, curr, temp, fuel) ==
    IF curr = NULL THEN [m |-> m, temp |-> temp]
    ELSE IF fuel = 0 THEN [m |-> [m EXCEPT !.fault = TRUE], temp |-> temp]
    ELSE LET t == Prev(m, curr)                      \* temp = curr->prev
             m1 == SetPrev(m, curr, Nxt(m, curr))    \* curr->prev = curr->next
             m2 == SetNext(m1, curr, t)              \* curr->next = temp
         IN reverse_loop(m2, Prev(m2, curr), t, fuel - 1)  \* curr = curr->prev

\* zlist_reverse that takes temp itself, not temp->prev, for the new head
zlist_reverse_wrong_head(m, l) ==
    LET r == reverse_loop(m, m.lists[l].head, NULL, MaxNodes + 1)
    IN IF r.temp # NULL
       THEN LET m1 == SetTail(r.m, l, r.m.lists[l].head)
            IN SetHead(m1, l, r.temp)
       ELSE r.m

\* zlist_reverse without the final swap of l->head and l->tail
zlist_reverse_no_swap(m, l) ==
    reverse_loop(m, m.lists[l].head, NULL, MaxNodes + 1).m

\* zlist_reverse_##Name(l)
zlist_reverse(m, l) ==
    LET r == reverse_loop(m, m.lists[l].head, NULL, MaxNodes + 1)
    IN IF r.temp # NULL
       THEN LET m1 == SetTail(r.m, l, r.m.lists[l].head)
            IN SetHead(m1, l, Prev(m1, r.temp))
       ELSE r.m

\* zlist_detach_node without the l->length--
zlist_detach_node_keeps_length(m, l, n) ==
    IF n = NULL THEN [m |-> m, ret |-> NULL]
    ELSE LET m1 == IF Prev(m, n) # NULL THEN SetNext(m, Prev(m, n), Nxt(m, n))
                   ELSE SetHead(m, l, Nxt(m, n))
             m2 == IF Nxt(m1, n) # NULL THEN SetPrev(m1, Nxt(m1, n), Prev(m1, n))
                   ELSE SetTail(m1, l, Prev(m1, n))
             m3 == SetPrev(SetNext(m2, n, NULL), n, NULL)
         IN [m |-> m3, ret |-> n]

\* zlist_detach_node without the "n->prev = n->next = NULL"
zlist_detach_node_keeps_links(m, l, n) ==
    IF n = NULL THEN [m |-> m, ret |-> NULL]
    ELSE LET m1 == IF Prev(m, n) # NULL THEN SetNext(m, Prev(m, n), Nxt(m, n))
                   ELSE SetHead(m, l, Nxt(m, n))
             m2 == IF Nxt(m1, n) # NULL THEN SetPrev(m1, Nxt(m1, n), Prev(m1, n))
                   ELSE SetTail(m1, l, Prev(m1, n))
             m4 == SetLength(m2, l, m2.lists[l].length - 1)
         IN [m |-> m4, ret |-> n]

\* zlist_detach_node without the "if (!n) return NULL": n->prev of a null n
zlist_detach_node_no_null_check(m, l, n) ==
    LET m0 == IF n = NULL THEN [m EXCEPT !.fault = TRUE] ELSE m
        m1 == IF Prev(m0, n) # NULL THEN SetNext(m0, Prev(m0, n), Nxt(m0, n))
              ELSE SetHead(m0, l, Nxt(m0, n))
        m2 == IF Nxt(m1, n) # NULL THEN SetPrev(m1, Nxt(m1, n), Prev(m1, n))
              ELSE SetTail(m1, l, Prev(m1, n))
        m3 == SetPrev(SetNext(m2, n, NULL), n, NULL)
        m4 == SetLength(m3, l, m3.lists[l].length - 1)
    IN [m |-> m4, ret |-> n]

\* zlist_detach_node_##Name(l, n): the memory it leaves and the node it returns
zlist_detach_node(m, l, n) ==
    IF n = NULL THEN [m |-> m, ret |-> NULL]
    ELSE LET m1 == IF Prev(m, n) # NULL THEN SetNext(m, Prev(m, n), Nxt(m, n))
                   ELSE SetHead(m, l, Nxt(m, n))
             m2 == IF Nxt(m1, n) # NULL THEN SetPrev(m1, Nxt(m1, n), Prev(m1, n))
                   ELSE SetTail(m1, l, Prev(m1, n))
             m3 == SetPrev(SetNext(m2, n, NULL), n, NULL)  \* n->prev = n->next = NULL
             m4 == SetLength(m3, l, m3.lists[l].length - 1)
         IN [m |-> m4, ret |-> n]

\* zlist_push_back without the "if (l->tail) l->tail->next = n"
zlist_push_back_no_link(m, l, val, a) ==
    LET m0 == zlist_create_node(m, a, val)
    IN IF a = NULL THEN [m |-> m0, ret |-> Z_ENOMEM]
       ELSE LET m1 == SetPrev(m0, a, m0.lists[l].tail)
                m3 == SetTail(m1, l, a)
                m4 == IF m3.lists[l].head = NULL THEN SetHead(m3, l, a) ELSE m3
                m5 == SetLength(m4, l, m4.lists[l].length + 1)
            IN [m |-> m5, ret |-> Z_OK]

\* zlist_push_back that counts the element before it looks at the allocation
zlist_push_back_counts_first(m, l, val, a) ==
    LET m0 == zlist_create_node(SetLength(m, l, m.lists[l].length + 1), a, val)
    IN IF a = NULL THEN [m |-> m0, ret |-> Z_ENOMEM]
       ELSE LET m1 == SetPrev(m0, a, m0.lists[l].tail)
                m2 == IF m1.lists[l].tail # NULL
                      THEN SetNext(m1, m1.lists[l].tail, a) ELSE m1
                m3 == SetTail(m2, l, a)
                m4 == IF m3.lists[l].head = NULL THEN SetHead(m3, l, a) ELSE m3
            IN [m |-> m4, ret |-> Z_OK]

\* zlist_push_back_##Name(l, val), a the block ZLIST_MALLOC returned
zlist_push_back(m, l, val, a) ==
    LET m0 == zlist_create_node(m, a, val)
    IN IF a = NULL THEN [m |-> m0, ret |-> Z_ENOMEM]
       ELSE LET m1 == SetPrev(m0, a, m0.lists[l].tail)
                m2 == IF m1.lists[l].tail # NULL
                      THEN SetNext(m1, m1.lists[l].tail, a) ELSE m1
                m3 == SetTail(m2, l, a)
                m4 == IF m3.lists[l].head = NULL THEN SetHead(m3, l, a) ELSE m3
                m5 == SetLength(m4, l, m4.lists[l].length + 1)
            IN [m |-> m5, ret |-> Z_OK]

\* zlist_push_front without the "if (l->head) l->head->prev = n"
zlist_push_front_no_backlink(m, l, val, a) ==
    LET m0 == zlist_create_node(m, a, val)
    IN IF a = NULL THEN [m |-> m0, ret |-> Z_ENOMEM]
       ELSE LET m1 == SetNext(m0, a, m0.lists[l].head)
                m3 == SetHead(m1, l, a)
                m4 == IF m3.lists[l].tail = NULL THEN SetTail(m3, l, a) ELSE m3
                m5 == SetLength(m4, l, m4.lists[l].length + 1)
            IN [m |-> m5, ret |-> Z_OK]

\* zlist_push_front_##Name(l, val)
zlist_push_front(m, l, val, a) ==
    LET m0 == zlist_create_node(m, a, val)
    IN IF a = NULL THEN [m |-> m0, ret |-> Z_ENOMEM]
       ELSE LET m1 == SetNext(m0, a, m0.lists[l].head)
                m2 == IF m1.lists[l].head # NULL
                      THEN SetPrev(m1, m1.lists[l].head, a) ELSE m1
                m3 == SetHead(m2, l, a)
                m4 == IF m3.lists[l].tail = NULL THEN SetTail(m3, l, a) ELSE m3
                m5 == SetLength(m4, l, m4.lists[l].length + 1)
            IN [m |-> m5, ret |-> Z_OK]

\* zlist_insert_after that never sets the successor's prev to the new node
zlist_insert_after_no_backlink(m, l, prev_node, val, a) ==
    IF prev_node = NULL THEN zlist_push_front(m, l, val, a)
    ELSE LET m0 == zlist_create_node(m, a, val)
         IN IF a = NULL THEN [m |-> m0, ret |-> Z_ENOMEM]
            ELSE LET m1 == SetPrev(m0, a, prev_node)
                     m2 == SetNext(m1, a, Nxt(m1, prev_node))
                     m3 == IF Nxt(m2, prev_node) # NULL
                           THEN m2
                           ELSE SetTail(m2, l, a)
                     m4 == SetNext(m3, prev_node, a)
                     m5 == SetLength(m4, l, m4.lists[l].length + 1)
                 IN [m |-> m5, ret |-> Z_OK]

\* zlist_insert_after with the "else l->tail = n" branch left out
zlist_insert_after_keeps_tail(m, l, prev_node, val, a) ==
    IF prev_node = NULL THEN zlist_push_front(m, l, val, a)
    ELSE LET m0 == zlist_create_node(m, a, val)
         IN IF a = NULL THEN [m |-> m0, ret |-> Z_ENOMEM]
            ELSE LET m1 == SetPrev(m0, a, prev_node)
                     m2 == SetNext(m1, a, Nxt(m1, prev_node))
                     m3 == IF Nxt(m2, prev_node) # NULL
                           THEN SetPrev(m2, Nxt(m2, prev_node), a)
                           ELSE m2
                     m4 == SetNext(m3, prev_node, a)
                     m5 == SetLength(m4, l, m4.lists[l].length + 1)
                 IN [m |-> m5, ret |-> Z_OK]

\* zlist_insert_after_##Name(l, prev_node, val)
zlist_insert_after(m, l, prev_node, val, a) ==
    IF prev_node = NULL THEN zlist_push_front(m, l, val, a)
    ELSE LET m0 == zlist_create_node(m, a, val)
         IN IF a = NULL THEN [m |-> m0, ret |-> Z_ENOMEM]
            ELSE LET m1 == SetPrev(m0, a, prev_node)
                     m2 == SetNext(m1, a, Nxt(m1, prev_node))
                     m3 == IF Nxt(m2, prev_node) # NULL
                           THEN SetPrev(m2, Nxt(m2, prev_node), a)
                           ELSE SetTail(m2, l, a)
                     m4 == SetNext(m3, prev_node, a)
                     m5 == SetLength(m4, l, m4.lists[l].length + 1)
                 IN [m |-> m5, ret |-> Z_OK]

\* zlist_pop_back with the "else l->head = NULL" branch left out
zlist_pop_back_keeps_head(m, l) ==
    IF m.lists[l].tail = NULL THEN m
    ELSE LET old_tail == m.lists[l].tail
             m1 == SetTail(m, l, Prev(m, old_tail))
             m2 == IF m1.lists[l].tail # NULL
                   THEN SetNext(m1, m1.lists[l].tail, NULL)
                   ELSE m1
             m3 == zlist_free_node(m2, old_tail)
         IN SetLength(m3, l, m3.lists[l].length - 1)

\* zlist_pop_back without the "l->tail->next = NULL" of the new tail
zlist_pop_back_no_unlink(m, l) ==
    IF m.lists[l].tail = NULL THEN m
    ELSE LET old_tail == m.lists[l].tail
             m1 == SetTail(m, l, Prev(m, old_tail))
             m2 == IF m1.lists[l].tail # NULL
                   THEN m1
                   ELSE SetHead(m1, l, NULL)
             m3 == zlist_free_node(m2, old_tail)
         IN SetLength(m3, l, m3.lists[l].length - 1)

\* zlist_pop_back_##Name(l)
zlist_pop_back(m, l) ==
    IF m.lists[l].tail = NULL THEN m
    ELSE LET old_tail == m.lists[l].tail
             m1 == SetTail(m, l, Prev(m, old_tail))
             m2 == IF m1.lists[l].tail # NULL
                   THEN SetNext(m1, m1.lists[l].tail, NULL)
                   ELSE SetHead(m1, l, NULL)
             m3 == zlist_free_node(m2, old_tail)
         IN SetLength(m3, l, m3.lists[l].length - 1)

\* zlist_pop_front without the "if (!l->head) return;"
zlist_pop_front_no_guard(m, l) ==
    LET old_head == m.lists[l].head
        m1 == SetHead(m, l, Nxt(m, old_head))
        m2 == IF m1.lists[l].head # NULL
              THEN SetPrev(m1, m1.lists[l].head, NULL)
              ELSE SetTail(m1, l, NULL)
        m3 == zlist_free_node(m2, old_head)
    IN SetLength(m3, l, m3.lists[l].length - 1)

\* zlist_pop_front without the l->length--
zlist_pop_front_keeps_length(m, l) ==
    IF m.lists[l].head = NULL THEN m
    ELSE LET old_head == m.lists[l].head
             m1 == SetHead(m, l, Nxt(m, old_head))
             m2 == IF m1.lists[l].head # NULL
                   THEN SetPrev(m1, m1.lists[l].head, NULL)
                   ELSE SetTail(m1, l, NULL)
         IN zlist_free_node(m2, old_head)

\* zlist_pop_front_##Name(l)
zlist_pop_front(m, l) ==
    IF m.lists[l].head = NULL THEN m
    ELSE LET old_head == m.lists[l].head
             m1 == SetHead(m, l, Nxt(m, old_head))
             m2 == IF m1.lists[l].head # NULL
                   THEN SetPrev(m1, m1.lists[l].head, NULL)
                   ELSE SetTail(m1, l, NULL)
             m3 == zlist_free_node(m2, old_head)
         IN SetLength(m3, l, m3.lists[l].length - 1)

\* zlist_remove_node with the "else l->tail = n->prev" branch left out
zlist_remove_node_keeps_tail(m, l, n) ==
    IF n = NULL THEN m
    ELSE LET m1 == IF Prev(m, n) # NULL THEN SetNext(m, Prev(m, n), Nxt(m, n))
                   ELSE SetHead(m, l, Nxt(m, n))
             m2 == IF Nxt(m1, n) # NULL THEN SetPrev(m1, Nxt(m1, n), Prev(m1, n))
                   ELSE m1
             m3 == zlist_free_node(m2, n)
         IN SetLength(m3, l, m3.lists[l].length - 1)

\* zlist_remove_node with the "else l->head = n->next" branch left out
zlist_remove_node_keeps_head(m, l, n) ==
    IF n = NULL THEN m
    ELSE LET m1 == IF Prev(m, n) # NULL THEN SetNext(m, Prev(m, n), Nxt(m, n))
                   ELSE m
             m2 == IF Nxt(m1, n) # NULL THEN SetPrev(m1, Nxt(m1, n), Prev(m1, n))
                   ELSE SetTail(m1, l, Prev(m1, n))
             m3 == zlist_free_node(m2, n)
         IN SetLength(m3, l, m3.lists[l].length - 1)

\* zlist_remove_node_##Name(l, n)
zlist_remove_node(m, l, n) ==
    IF n = NULL THEN m
    ELSE LET m1 == IF Prev(m, n) # NULL THEN SetNext(m, Prev(m, n), Nxt(m, n))
                   ELSE SetHead(m, l, Nxt(m, n))
             m2 == IF Nxt(m1, n) # NULL THEN SetPrev(m1, Nxt(m1, n), Prev(m1, n))
                   ELSE SetTail(m1, l, Prev(m1, n))
             m3 == zlist_free_node(m2, n)
         IN SetLength(m3, l, m3.lists[l].length - 1)

\* zlist_clear_##Name: the while (curr) loop
RECURSIVE clear_loop(_, _, _)
clear_loop(m, curr, fuel) ==
    IF curr = NULL THEN m
    ELSE IF fuel = 0 \/ curr \notin m.live THEN [m EXCEPT !.fault = TRUE]
    ELSE LET next == Nxt(m, curr)
         IN clear_loop(zlist_free_node(m, curr), next, fuel - 1)

\* zlist_clear that frees the head node only, not the nodes after it
zlist_clear_frees_head_only(m, l) ==
    LET m1 == IF m.lists[l].head = NULL THEN m
              ELSE zlist_free_node(m, m.lists[l].head)
        m2 == SetTail(SetHead(m1, l, NULL), l, NULL)
    IN SetLength(m2, l, 0)

\* zlist_clear_##Name(l)
zlist_clear(m, l) ==
    LET m1 == clear_loop(m, m.lists[l].head, MaxNodes + 1)
        m2 == SetTail(SetHead(m1, l, NULL), l, NULL)
    IN SetLength(m2, l, 0)

\* zlist_splice without the "dest->length += src->length"
zlist_splice_keeps_length(m, dest, src) ==
    IF dest = src \/ m.lists[src].head = NULL THEN m
    ELSE LET m1 == IF m.lists[dest].head = NULL
                   THEN [m EXCEPT !.lists[dest] = m.lists[src]]
                   ELSE LET a1 == SetNext(m, m.lists[dest].tail, m.lists[src].head)
                            a2 == SetPrev(a1, a1.lists[src].head, a1.lists[dest].tail)
                        IN SetTail(a2, dest, a2.lists[src].tail)
             m2 == SetTail(SetHead(m1, src, NULL), src, NULL)
         IN SetLength(m2, src, 0)

\* zlist_splice without the "dest == src" guard
zlist_splice_no_self_guard(m, dest, src) ==
    IF m.lists[src].head = NULL THEN m
    ELSE LET m1 == IF m.lists[dest].head = NULL
                   THEN [m EXCEPT !.lists[dest] = m.lists[src]]
                   ELSE LET a1 == SetNext(m, m.lists[dest].tail, m.lists[src].head)
                            a2 == SetPrev(a1, a1.lists[src].head, a1.lists[dest].tail)
                            a3 == SetTail(a2, dest, a2.lists[src].tail)
                        IN SetLength(a3, dest,
                                     a3.lists[dest].length + a3.lists[src].length)
             m2 == SetTail(SetHead(m1, src, NULL), src, NULL)
         IN SetLength(m2, src, 0)

\* zlist_splice that leaves src as it was instead of resetting it
zlist_splice_keeps_src(m, dest, src) ==
    IF dest = src \/ m.lists[src].head = NULL THEN m
    ELSE IF m.lists[dest].head = NULL
         THEN [m EXCEPT !.lists[dest] = m.lists[src]]
         ELSE LET a1 == SetNext(m, m.lists[dest].tail, m.lists[src].head)
                  a2 == SetPrev(a1, a1.lists[src].head, a1.lists[dest].tail)
                  a3 == SetTail(a2, dest, a2.lists[src].tail)
              IN SetLength(a3, dest, a3.lists[dest].length + a3.lists[src].length)

\* zlist_splice_##Name(dest, src)
zlist_splice(m, dest, src) ==
    IF dest = src \/ m.lists[src].head = NULL THEN m
    ELSE LET m1 == IF m.lists[dest].head = NULL
                   THEN [m EXCEPT !.lists[dest] = m.lists[src]]    \* *dest = *src
                   ELSE LET a1 == SetNext(m, m.lists[dest].tail, m.lists[src].head)
                            a2 == SetPrev(a1, a1.lists[src].head, a1.lists[dest].tail)
                            a3 == SetTail(a2, dest, a2.lists[src].tail)
                        IN SetLength(a3, dest,
                                     a3.lists[dest].length + a3.lists[src].length)
             m2 == SetTail(SetHead(m1, src, NULL), src, NULL)
         IN SetLength(m2, src, 0)

\* z_list::list<T>::splice(list &&source)
list_splice(m, this, source) == zlist_splice(m, this, source)

\* zlist_at_##Name: the while (index-- > 0) loop; curr->next of NULL or of a
\* freed node is a fault
RECURSIVE at_loop(_, _, _)
at_loop(m, curr, index) ==
    IF index = 0 THEN [m |-> m, ret |-> curr]
    ELSE IF curr \notin m.live THEN [m |-> [m EXCEPT !.fault = TRUE], ret |-> NULL]
    ELSE at_loop(m, Nxt(m, curr), index - 1)

\* zlist_at without the "if (index >= l->length) return NULL;"
zlist_at_no_bounds(m, l, index) == at_loop(m, m.lists[l].head, index)

\* zlist_at_##Name(l, index): the memory it leaves and the node it returns
zlist_at(m, l, index) ==
    IF index >= m.lists[l].length THEN [m |-> m, ret |-> NULL]
    ELSE at_loop(m, m.lists[l].head, index)

\* ------------------------------------------------------------ the safe API
\* zerr: the code and the message of an error (file, line and function left out)
zerr_create_impl(code, msg) == [code |-> code, msg |-> msg]

\* zlist_err_impl(code, msg, file, line, func)
zlist_err_impl(code, msg) == zerr_create_impl(code, msg)

\* zres_ok(): (zres){ .is_ok = true }, the err member zero-initialised (a null
\* msg is the empty string here)
zres_ok == [is_ok |-> TRUE, err |-> [code |-> 0, msg |-> ""]]

\* zres_err(e)
zres_err(e) == [is_ok |-> FALSE, err |-> e]

\* zlist_push_back_safe that drops the status of zlist_push_back
zlist_push_back_safe_ignores_failure(m, l, val, a) ==
    [m |-> zlist_push_back(m, l, val, a).m, res |-> zres_ok]

\* zlist_push_back_safe_##Name(l, val, f, ln, fn): the memory it leaves and
\* the zres it returns
zlist_push_back_safe(m, l, val, a) ==
    LET r == zlist_push_back(m, l, val, a)
    IN IF Z_OK # r.ret
       THEN [m |-> r.m, res |-> zres_err(zlist_err_impl(Z_ENOMEM, "List Push OOM"))]
       ELSE [m |-> r.m, res |-> zres_ok]

\* zlist_push_front_safe_##Name(l, val, f, ln, fn)
zlist_push_front_safe(m, l, val, a) ==
    LET r == zlist_push_front(m, l, val, a)
    IN IF Z_OK # r.ret
       THEN [m |-> r.m, res |-> zres_err(zlist_err_impl(Z_ENOMEM, "List Push OOM"))]
       ELSE [m |-> r.m, res |-> zres_ok]

\* Res_##Name_ok(v) and Res_##Name_err(e) of DEFINE_RESULT(T, Res_##Name): val
\* and err share a union, only the member written is there to read
Res_ok(v) == [is_ok |-> TRUE, val |-> v]
Res_err(e) == [is_ok |-> FALSE, err |-> e]

\* reading n->value: a fault when n is not an allocated node
ReadValue(m, n) == IF n \in m.live THEN m ELSE [m EXCEPT !.fault = TRUE]

\* zlist_front_safe that takes the head out of the list
zlist_front_safe_pops(m, l) ==
    IF m.lists[l].head = NULL
    THEN [m |-> m, res |-> Res_err(zlist_err_impl(Z_EEMPTY, "List is empty"))]
    ELSE [m |-> zlist_pop_front(m, l), res |-> Res_ok(Val(m, m.lists[l].head))]

\* zlist_front_safe_##Name(l, f, ln, fn): the memory it leaves and the Res it returns
zlist_front_safe(m, l) ==
    IF m.lists[l].head = NULL
    THEN [m |-> m, res |-> Res_err(zlist_err_impl(Z_EEMPTY, "List is empty"))]
    ELSE [m |-> ReadValue(m, m.lists[l].head), res |-> Res_ok(Val(m, m.lists[l].head))]

\* zlist_back_safe that returns l->head->value
zlist_back_safe_reads_head(m, l) ==
    IF m.lists[l].tail = NULL
    THEN [m |-> m, res |-> Res_err(zlist_err_impl(Z_EEMPTY, "List is empty"))]
    ELSE [m |-> ReadValue(m, m.lists[l].head), res |-> Res_ok(Val(m, m.lists[l].head))]

\* zlist_back_safe_##Name(l, f, ln, fn)
zlist_back_safe(m, l) ==
    IF m.lists[l].tail = NULL
    THEN [m |-> m, res |-> Res_err(zlist_err_impl(Z_EEMPTY, "List is empty"))]
    ELSE [m |-> ReadValue(m, m.lists[l].tail), res |-> Res_ok(Val(m, m.lists[l].tail))]

\* zlist_pop_back_safe that returns zres_ok() without calling zlist_pop_back
zlist_pop_back_safe_no_pop(m, l) ==
    IF m.lists[l].tail = NULL
    THEN [m |-> m, res |-> zres_err(zlist_err_impl(Z_EEMPTY, "List is empty"))]
    ELSE [m |-> m, res |-> zres_ok]

\* zlist_pop_back_safe_##Name(l, f, ln, fn)
zlist_pop_back_safe(m, l) ==
    IF m.lists[l].tail = NULL
    THEN [m |-> m, res |-> zres_err(zlist_err_impl(Z_EEMPTY, "List is empty"))]
    ELSE [m |-> zlist_pop_back(m, l), res |-> zres_ok]

\* zlist_pop_front_safe_##Name(l, f, ln, fn)
zlist_pop_front_safe(m, l) ==
    IF m.lists[l].head = NULL
    THEN [m |-> m, res |-> zres_err(zlist_err_impl(Z_EEMPTY, "List is empty"))]
    ELSE [m |-> zlist_pop_front(m, l), res |-> zres_ok]

\* ------------------------------------------------------------ traversals
\* zlist_foreach: the nodes the loop visits, in order (at most fuel of them)
RECURSIVE foreach_from(_, _, _)
foreach_from(m, iter, fuel) ==
    IF iter = NULL \/ fuel = 0 THEN <<>>
    ELSE <<iter>> \o foreach_from(m, Nxt(m, iter), fuel - 1)

\* zlist_foreach_rev
RECURSIVE foreach_rev_from(_, _, _)
foreach_rev_from(m, iter, fuel) ==
    IF iter = NULL \/ fuel = 0 THEN <<>>
    ELSE <<iter>> \o foreach_rev_from(m, Prev(m, iter), fuel - 1)

zlist_foreach(m, l) == foreach_from(m, m.lists[l].head, MaxNodes + 1)
zlist_foreach_rev(m, l) == foreach_rev_from(m, m.lists[l].tail, MaxNodes + 1)

Range(s) == {s[i] : i \in 1..Len(s)}

\* the nodes reachable from l's head, and the values a forward traversal yields
NodesOf(m, l) == Range(zlist_foreach(m, l))
ValuesOf(m, l) == [i \in 1..Len(zlist_foreach(m, l)) |-> Val(m, zlist_foreach(m, l)[i])]

\* --------------------------------------------- check and try compositions
\* the file, line and function a safe call passes to zlist_err_impl, of which
\* the line tells the call sites of one function apart; source starts NULL,
\* here the empty string
WithLocation(res, ln) ==
    IF res.is_ok THEN res
    ELSE [res EXCEPT !.err = [code |-> res.err.code, msg |-> res.err.msg,
                              line |-> ln, source |-> ""]]

\* zerr_with_src(e, src)
zerr_with_src(e, src) == IF e.source = "" THEN [e EXCEPT !.source = src] ELSE e

\* Z_TRACE_OP(e) without ZERROR_ENABLE_TRACE
Z_TRACE_OP(e) == e

\* zerr_wrap(e, fmt): the context goes behind the message
zerr_wrap(e, fmt) == [e EXCEPT !.msg = @ \o " | context: " \o fmt]

\* Z_CHECK that goes on after a failure
Z_CHECK_no_return(res, src) == [returns |-> FALSE, ret |-> zres_ok]

\* Z_CHECK(expr, src): whether the enclosing function returns here, and what
Z_CHECK(res, src) ==
    IF ~res.is_ok
    THEN [returns |-> TRUE,
          ret |-> zres_err(Z_TRACE_OP(zerr_with_src(res.err, src)))]
    ELSE [returns |-> FALSE, ret |-> zres_ok]

\* Z_CHECK_CTX(expr, src, fmt)
Z_CHECK_CTX(res, src, fmt) ==
    IF ~res.is_ok
    THEN [returns |-> TRUE,
          ret |-> zres_err(zerr_wrap(Z_TRACE_OP(zerr_with_src(res.err, src)), fmt))]
    ELSE [returns |-> FALSE, ret |-> zres_ok]

\* Z_TRY_INTO(zres, expr, src): the value of the expression is res.val when
\* the function goes on
Z_TRY_INTO(res, src) ==
    IF ~res.is_ok
    THEN [returns |-> TRUE,
          ret |-> zres_err(Z_TRACE_OP(zerr_with_src(res.err, src)))]
    ELSE [returns |-> FALSE, ret |-> zres_ok]

\* zlist_autofree whose cleanup handler does nothing
zlist_autofree_no_cleanup(m, l) == m

\* zlist_autofree(Name): Z_CLEANUP(zlist_clear_##Name) runs when the variable
\* leaves its scope
zlist_autofree(m, l) == zlist_clear(m, l)

\* the function is not running (its frame of before the first call), is in
\* its body, or has returned ret
NoFrame == [pc |-> "idle", nums |-> NULL, line |-> 0, ret |-> zres_ok]

\* ------------------------------------------------- traversals that remove
\* reading a field of node n, a fault when n is not an allocated node
Deref(m, n) == IF n \in m.live THEN m ELSE [m EXCEPT !.fault = TRUE]

\* the body of example_0.c: use the current node and, in the iterations of
\* Removing, call list_remove_node(l, iter)
LoopBody(m, l, iter, k, Removing) ==
    LET m1 == Deref(m, iter)
    IN IF k \in Removing THEN zlist_remove_node(m1, l, iter) ELSE m1

\* zlist_foreach_safe: one iteration per unfolding, iter and safe as in the
\* for (...; iter != NULL; iter = safe, safe = iter ? iter->next : NULL)
RECURSIVE foreach_safe_loop(_, _, _, _, _, _, _, _)
foreach_safe_loop(m, l, iter, safe, k, Removing, visited, fuel) ==
    IF iter = NULL THEN [m |-> m, visited |-> visited]
    ELSE IF fuel = 0 THEN [m |-> [m EXCEPT !.fault = TRUE], visited |-> visited]
    ELSE LET m1 == LoopBody(m, l, iter, k, Removing)
             m2 == IF safe # NULL THEN Deref(m1, safe) ELSE m1
             nxt == IF safe # NULL THEN Nxt(m1, safe) ELSE NULL
         IN foreach_safe_loop(m2, l, safe, nxt, k + 1, Removing,
                              Append(visited, iter), fuel - 1)

\* zlist_foreach with the same body: iter = iter->next is read after the body
RECURSIVE foreach_loop(_, _, _, _, _, _, _)
foreach_loop(m, l, iter, k, Removing, visited, fuel) ==
    IF iter = NULL THEN [m |-> m, visited |-> visited]
    ELSE IF fuel = 0 THEN [m |-> [m EXCEPT !.fault = TRUE], visited |-> visited]
    ELSE LET m1 == LoopBody(m, l, iter, k, Removing)
             m2 == Deref(m1, iter)
         IN foreach_loop(m2, l, Nxt(m1, iter), k + 1, Removing,
                         Append(visited, iter), fuel - 1)

\* the traversal with zlist_foreach in the place of zlist_foreach_safe
zlist_foreach_removing(m, l, Removing) ==
    foreach_loop(m, l, m.lists[l].head, 1, Removing, <<>>, MaxNodes + 1)

\* zlist_foreach_safe(l, iter, safe) with the removing body: the memory it
\* leaves and the nodes it visited
zlist_foreach_safe(m, l, Removing) ==
    LET iter == m.lists[l].head
        m1 == IF iter # NULL THEN Deref(m, iter) ELSE m
        safe == IF iter # NULL THEN Nxt(m, iter) ELSE NULL
    IN foreach_safe_loop(m1, l, iter, safe, 1, Removing, <<>>, MaxNodes + 1)

\* zlist_foreach_rev_safe: one iteration per unfolding
RECURSIVE foreach_rev_safe_loop(_, _, _, _, _, _, _, _)
foreach_rev_safe_loop(m, l, iter, safe, k, Removing, visited, fuel) ==
    IF iter = NULL THEN [m |-> m, visited |-> visited]
    ELSE IF fuel = 0 THEN [m |-> [m EXCEPT !.fault = TRUE], visited |-> visited]
    ELSE LET m1 == LoopBody(m, l, iter, k, Removing)
             m2 == IF safe # NULL THEN Deref(m1, safe) ELSE m1
             prv == IF safe # NULL THEN Prev(m1, safe) ELSE NULL
         IN foreach_rev_safe_loop(m2, l, safe, prv, k + 1, Removing,
                                  Append(visited, iter), fuel - 1)

\* zlist_foreach_rev_safe(l, iter, safe) with the removing body
zlist_foreach_rev_safe(m, l, Removing) ==
    LET iter == m.lists[l].tail
        m1 == IF iter # NULL THEN Deref(m, iter) ELSE m
        safe == IF iter # NULL THEN Prev(m, iter) ELSE NULL
    IN foreach_rev_safe_loop(m1, l, iter, safe, 1, Removing, <<>>, MaxNodes + 1)

\* ------------------------------------------------------- the C++ wrapper
\* z_list::list<T>: lists[this] is its member inner.  Every member function
\* gives the memory it leaves and the exception it throws ("none" for none).
NoThrow == "none"
bad_alloc == "bad_alloc"
out_of_range == "out_of_range"

\* ZLIST_MALLOC at the k-th push of a call: NULL at the push number failAt and
\* on a used-up heap, a free block otherwise
AllocAt(m, k, failAt) ==
    IF k = failAt \/ Nodes \ m.live = {} THEN NULL ELSE FirstFree(m)

\* list::push_back(val)
list_push_back(m, this, val, a) ==
    LET r == zlist_push_back(m, this, val, a)
    IN [m |-> r.m, thrown |-> IF Z_OK # r.ret THEN bad_alloc ELSE NoThrow]

\* list::push_front(val) that ignores the result of zlist_push_front
list_push_front_swallows(m, this, val, a) ==
    LET r == zlist_push_front(m, this, val, a)
    IN [m |-> r.m, thrown |-> NoThrow]

\* list::push_front(val)
list_push_front(m, this, val, a) ==
    LET r == zlist_push_front(m, this, val, a)
    IN [m |-> r.m, thrown |-> IF Z_OK # r.ret THEN bad_alloc ELSE NoThrow]

\* for (const auto &item : init) push_back(item);  the loop leaves at the
\* first push_back that throws
RECURSIVE push_each(_, _, _, _, _)
push_each(m, this, items, k, failAt) ==
    IF items = <<>> THEN [m |-> m, thrown |-> NoThrow]
    ELSE LET r == list_push_back(m, this, Head(items), AllocAt(m, k, failAt))
         IN IF r.thrown # NoThrow THEN r
            ELSE push_each(r.m, this, Tail(items), k + 1, failAt)

\* for (const auto &item : other) push_back(item);  it walks other from
\* begin() to end() with list_iterator::operator++
RECURSIVE copy_each(_, _, _, _, _, _)
copy_each(m, this, it, k, failAt, fuel) ==
    IF it = NULL THEN [m |-> m, thrown |-> NoThrow]
    ELSE IF fuel = 0 THEN [m |-> [m EXCEPT !.fault = TRUE], thrown |-> NoThrow]
    ELSE LET r == list_push_back(Deref(m, it), this, Val(m, it),
                                 AllocAt(m, k, failAt))
         IN IF r.thrown # NoThrow THEN r
            ELSE copy_each(r.m, this, Nxt(r.m, it), k + 1, failAt, fuel - 1)

\* list::list()
list_ctor(m, this) == [m |-> [m EXCEPT !.lists[this] = zlist_init], thrown |-> NoThrow]

\* list(std::initializer_list<T>) that pushes each item at the front
list_ctor_init_push_front(m, this, init, failAt) ==
    push_each([m EXCEPT !.lists[this] = zlist_init], this,
              [i \in 1..Len(init) |-> init[Len(init) + 1 - i]], 1, failAt)

\* list::list(std::initializer_list<T> init)
list_ctor_init(m, this, init, failAt) ==
    push_each([m EXCEPT !.lists[this] = zlist_init], this, init, 1, failAt)

\* a copy constructor that copies the handle, as the implicit one would
list_ctor_copy_shallow(m, this, other, failAt) ==
    [m |-> [m EXCEPT !.lists[this] = m.lists[other]], thrown |-> NoThrow]

\* list::list(const list &other)
list_ctor_copy(m, this, other, failAt) ==
    LET m1 == [m EXCEPT !.lists[this] = zlist_init]
    IN copy_each(m1, this, m1.lists[other].head, 1, failAt, MaxNodes + 1)

\* list::list(list &&other)
list_ctor_move(m, this, other) ==
    LET m1 == [m EXCEPT !.lists[this] = m.lists[other]]
    IN [m |-> [m1 EXCEPT !.lists[other] = zlist_init], thrown |-> NoThrow]

\* list::~list()
list_dtor(m, this) == [m |-> zlist_clear(m, this), thrown |-> NoThrow]

\* list::operator=(const list &other)
list_assign_copy(m, this, other, failAt) ==
    IF other # this
    THEN LET m1 == zlist_clear(m, this)
             m2 == [m1 EXCEPT !.lists[this] = zlist_init]
         IN copy_each(m2, this, m2.lists[other].head, 1, failAt, MaxNodes + 1)
    ELSE [m |-> m, thrown |-> NoThrow]

\* operator=(list &&) without the Traits::clear(&inner) of the former nodes
list_assign_move_no_clear(m, this, other) ==
    IF this # other
    THEN LET m2 == [m EXCEPT !.lists[this] = m.lists[other]]
         IN [m |-> [m2 EXCEPT !.lists[other] = zlist_init], thrown |-> NoThrow]
    ELSE [m |-> m, thrown |-> NoThrow]

\* list::operator=(list &&other)
list_assign_move(m, this, other) ==
    IF this # other
    THEN LET m1 == zlist_clear(m, this)
             m2 == [m1 EXCEPT !.lists[this] = m1.lists[other]]
         IN [m |-> [m2 EXCEPT !.lists[other] = zlist_init], thrown |-> NoThrow]
    ELSE [m |-> m, thrown |-> NoThrow]

\* list_iterator<T>: the container's handle and the node referred to, NULL
\* for end(); NoIterator stands for a client that holds no iterator
iterator(l, p) == [list_ptr |-> l, current |-> p]
NoIterator == iterator(NULL, NULL)

\* list::begin() and list::end()
list_begin(m, this) == iterator(this, m.lists[this].head)
list_end(m, this) == iterator(this, NULL)

\* list_iterator::operator*(): current->value, a fault on end() or a freed node
iterator_deref(m, i) == [m |-> Deref(m, i.current), ret |-> Val(m, i.current)]

\* list_iterator::operator++(): end() stays end()
iterator_inc(m, i) ==
    IF i.current # NULL
    THEN [m |-> Deref(m, i.current), it |-> iterator(i.list_ptr, Nxt(m, i.current))]
    ELSE [m |-> m, it |-> i]

\* list_iterator::operator--() that steps from end() like from an element
iterator_dec_no_end(m, i) ==
    IF NULL = i.current
    THEN [m |-> m, it |-> i]
    ELSE [m |-> Deref(m, i.current), it |-> iterator(i.list_ptr, Prev(m, i.current))]

\* list_iterator::operator--(): from end() to list_ptr->tail
iterator_dec(m, i) ==
    IF NULL = i.current
    THEN [m |-> m, it |-> iterator(i.list_ptr, m.lists[i.list_ptr].tail)]
    ELSE [m |-> Deref(m, i.current), it |-> iterator(i.list_ptr, Prev(m, i.current))]

\* list::size() and list::empty()
list_size(m, this) == m.lists[this].length
list_empty(m, this) == zlist_is_empty(m, this)

\* list::front(): the memory, the exception and the value referred to
list_front(m, this) ==
    IF list_empty(m, this) THEN [m |-> m, thrown |-> out_of_range, ret |-> 0]
    ELSE [m |-> Deref(m, m.lists[this].head), thrown |-> NoThrow,
          ret |-> Val(m, m.lists[this].head)]

\* list::back()
list_back(m, this) ==
    IF list_empty(m, this) THEN [m |-> m, thrown |-> out_of_range, ret |-> 0]
    ELSE [m |-> Deref(m, m.lists[this].tail), thrown |-> NoThrow,
          ret |-> Val(m, m.lists[this].tail)]

\* list::pop_back() without the check of empty()
list_pop_back_unchecked(m, this) ==
    [m |-> zlist_pop_back(m, this), thrown |-> NoThrow]

\* list::pop_back()
list_pop_back(m, this) ==
    IF list_empty(m, this) THEN [m |-> m, thrown |-> out_of_range]
    ELSE [m |-> zlist_pop_back(m, this), thrown |-> NoThrow]

\* list::pop_front()
list_pop_front(m, this) ==
    IF list_empty(m, this) THEN [m |-> m, thrown |-> out_of_range]
    ELSE [m |-> zlist_pop_front(m, this), thrown |-> NoThrow]

\* list::clear()
list_clear(m, this) == [m |-> zlist_clear(m, this), thrown |-> NoThrow]

\* list::reverse() that exchanges the values and leaves the links alone
list_reverse_swaps_values(m, this) ==
    LET q == zlist_foreach(m, this)
        at(n) == CHOOSE i \in 1..Len(q) : q[i] = n
    IN [m |-> [m EXCEPT !.nodes =
                   [n \in Nodes |->
                       IF n \in Range(q)
                       THEN [m.nodes[n] EXCEPT !.value = Val(m, q[Len(q) + 1 - at(n)])]
                       ELSE m.nodes[n]]],
        thrown |-> NoThrow]

\* list::reverse()
list_reverse(m, this) == [m |-> zlist_reverse(m, this), thrown |-> NoThrow]

\* list::insert_after(pos, val) that returns pos in place of the new element
list_insert_after_returns_pos(m, this, pos, val, a) ==
    LET prev_node == pos
        r == zlist_insert_after(m, this, prev_node, val, a)
    IN IF Z_OK # r.ret THEN [m |-> r.m, thrown |-> bad_alloc, ret |-> NULL]
       ELSE [m |-> r.m, thrown |-> NoThrow,
             ret |-> IF prev_node # NULL THEN prev_node ELSE r.m.lists[this].head]

\* list::insert_after(pos, val): ret is the node of the iterator returned
list_insert_after(m, this, pos, val, a) ==
    LET prev_node == pos
        r == zlist_insert_after(m, this, prev_node, val, a)
    IN IF Z_OK # r.ret THEN [m |-> r.m, thrown |-> bad_alloc, ret |-> NULL]
       ELSE [m |-> IF prev_node # NULL THEN Deref(r.m, prev_node) ELSE r.m,
             thrown |-> NoThrow,
             ret |-> IF prev_node # NULL THEN Nxt(r.m, prev_node)
                     ELSE r.m.lists[this].head]

\* list::erase(pos) that returns begin() in place of the following element
list_erase_returns_begin(m, this, pos) ==
    IF NULL = pos THEN [m |-> m, thrown |-> out_of_range, ret |-> NULL]
    ELSE LET to_remove == pos
             r == zlist_remove_node(Deref(m, to_remove), this, to_remove)
         IN [m |-> r, thrown |-> NoThrow, ret |-> r.lists[this].head]

\* list::erase(pos): ret is the node of the iterator returned, NULL for end()
list_erase(m, this, pos) ==
    IF NULL = pos THEN [m |-> m, thrown |-> out_of_range, ret |-> NULL]
    ELSE LET to_remove == pos
             next_node == Nxt(m, to_remove)
         IN [m |-> zlist_remove_node(Deref(m, to_remove), this, to_remove),
             thrown |-> NoThrow, ret |-> next_node]

\* ------------------------------------------------------------------ calls
\* The client program: one action per call of a public function, made within
\* the function's precondition (a node argument is NULL or a node of the list).

Call(op, ret) == [op |-> op, ret |-> ret, freed |-> 0]

\* a call that left memory m: the blocks it gave to ZLIST_FREE are those no
\* longer allocated
FreeingCall(op, ret, m) ==
    [op |-> op, ret |-> ret, freed |-> Cardinality(live \ m.live)]

Commit(m) ==
    /\ lists' = m.lists
    /\ nodes' = m.nodes
    /\ live' = m.live
    /\ fault' = m.fault

Init ==
    /\ lists = [l \in Lists |-> zlist_init]
    /\ nodes = [n \in Nodes |-> FreeBlock]
    /\ live = {}
    /\ detached = {}
    /\ fault = FALSE
    /\ last = Call("none", Z_OK)
    /\ calls = [l \in Lists |-> <<>>]
    /\ alive = {}
    /\ cursor = NoIterator
    /\ frame = NoFrame

\* zlist_Int list = zlist_init(Int);  a handle that owns no node is (re)initialised
InitList(l) ==
    /\ NodesOf(Mem, l) = {}
    /\ Commit([Mem EXCEPT !.lists[l] = zlist_init])
    /\ last' = Call("init", Z_OK)
    /\ UNCHANGED <<detached, calls, alive, cursor, frame>>

PushBackWith(l, v, a) ==
    LET r == zlist_push_back(Mem, l, v, a)
    IN /\ Commit(r.m)
       /\ last' = Call("push_back", r.ret)
       /\ UNCHANGED <<detached, alive, cursor, frame>>

PushFrontWith(l, v, a) ==
    LET r == zlist_push_front(Mem, l, v, a)
    IN /\ Commit(r.m)
       /\ last' = Call("push_front", r.ret)
       /\ UNCHANGED <<detached, alive, cursor, frame>>

InsertAfterWith(l, p, v, a) ==
    /\ p \in NodesOf(Mem, l) \cup {NULL}
    /\ LET r == zlist_insert_after(Mem, l, p, v, a)
       IN /\ Commit(r.m)
          /\ last' = Call("insert_after", r.ret)
    /\ UNCHANGED <<detached, calls, alive, cursor, frame>>

PushBack(l, v) ==
    /\ \E a \in AllocOutcomes(Mem) : PushBackWith(l, v, a)
    /\ UNCHANGED <<calls, alive, cursor, frame>>

PushFront(l, v) ==
    /\ \E a \in AllocOutcomes(Mem) : PushFrontWith(l, v, a)
    /\ UNCHANGED <<calls, alive, cursor, frame>>

InsertAfter(l, p, v) == \E a \in AllocOutcomes(Mem) : InsertAfterWith(l, p, v, a)

PopBack(l) ==
    /\ Commit(zlist_pop_back(Mem, l))
    /\ last' = FreeingCall("pop_back", Z_OK, zlist_pop_back(Mem, l))
    /\ UNCHANGED <<detached, calls, alive, cursor, frame>>

PopFront(l) ==
    /\ Commit(zlist_pop_front(Mem, l))
    /\ last' = FreeingCall("pop_front", Z_OK, zlist_pop_front(Mem, l))
    /\ UNCHANGED <<detached, calls, alive, cursor, frame>>

RemoveNode(l, n) ==
    /\ n \in NodesOf(Mem, l) \cup {NULL}
    /\ Commit(zlist_remove_node(Mem, l, n))
    /\ last' = FreeingCall("remove_node", Z_OK, zlist_remove_node(Mem, l, n))
    /\ UNCHANGED <<detached, calls, alive, cursor, frame>>

DetachNode(l, n) ==
    /\ n \in NodesOf(Mem, l) \cup {NULL}
    /\ LET r == zlist_detach_node(Mem, l, n)
       IN /\ Commit(r.m)
          /\ detached' = detached \cup ({r.ret} \ {NULL})
          /\ last' = Call("detach_node", r.ret)
    /\ UNCHANGED <<calls, alive, cursor, frame>>

\* ZLIST_FREE(detached): the caller disposes of a node it detached
FreeDetached(n) ==
    /\ n \in detached
    /\ Commit(zlist_free_node(Mem, n))
    /\ detached' = detached \ {n}
    /\ last' = FreeingCall("free", Z_OK, zlist_free_node(Mem, n))
    /\ UNCHANGED <<calls, alive, cursor, frame>>

Clear(l) ==
    /\ Commit(zlist_clear(Mem, l))
    /\ last' = FreeingCall("clear", Z_OK, zlist_clear(Mem, l))
    /\ UNCHANGED <<detached, calls, alive, cursor, frame>>

Splice(dest, src) ==
    /\ Commit(zlist_splice(Mem, dest, src))
    /\ last' = Call("splice", Z_OK)
    /\ UNCHANGED <<detached, calls, alive, cursor, frame>>

\* l1.splice(std::move(l2)) of the C++ wrapper
WrapperSplice(dest, src) ==
    /\ Commit(list_splice(Mem, dest, src))
    /\ last' = Call("list_splice", Z_OK)
    /\ UNCHANGED <<detached, calls, alive, cursor, frame>>

Reverse(l) ==
    /\ Commit(zlist_reverse(Mem, l))
    /\ last' = Call("reverse", Z_OK)
    /\ UNCHANGED <<detached, calls, alive, cursor, frame>>

Next ==
    \/ \E l \in Lists : InitList(l)
    \/ \E l \in Lists, v \in Values : PushBack(l, v)
    \/ \E l \in Lists, v \in Values : PushFront(l, v)
    \/ \E l \in Lists, p \in Ptr, v \in Values : InsertAfter(l, p, v)
    \/ \E l \in Lists : PopBack(l)
    \/ \E l \in Lists : PopFront(l)
    \/ \E l \in Lists, n \in Ptr : RemoveNode(l, n)
    \/ \E l \in Lists, n \in Ptr : DetachNode(l, n)
    \/ \E n \in Nodes : FreeDetached(n)
    \/ \E l \in Lists : Clear(l)
    \/ \E d \in Lists, s \in Lists : Splice(d, s)
    \/ \E d \in Lists, s \in Lists : WrapperSplice(d, s)
    \/ \E l \in Lists : Reverse(l)

Spec == Init /\ [][Next]_vars

\* A client that only pushes, and logs every push that returned Z_OK
Logged(l, kind, v) ==
    calls' = IF last'.ret = Z_OK
             THEN [calls EXCEPT ![l] = Append(@, [kind |-> kind, v |-> v])]
             ELSE calls

RunPushBack(l, v) ==
    /\ \E a \in AllocOutcomes(Mem) : PushBackWith(l, v, a)
    /\ Logged(l, "back", v)

RunPushFront(l, v) ==
    /\ \E a \in AllocOutcomes(Mem) : PushFrontWith(l, v, a)
    /\ Logged(l, "front", v)

NextPush ==
    \/ \E l \in Lists, v \in Values : RunPushBack(l, v)
    \/ \E l \in Lists, v \in Values : RunPushFront(l, v)

SpecPush == Init /\ [][NextPush]_vars

\* A client that builds lists, takes nodes out and looks nodes up by index
MaxIndex == MaxNodes + 1
Indices == 0..MaxIndex

At(l, index) ==
    /\ LET r == zlist_at(Mem, l, index)
       IN /\ Commit(r.m)
          /\ last' = Call("at", r.ret)
    /\ UNCHANGED <<detached, calls, alive, cursor, frame>>

NextAt ==
    \/ \E l \in Lists, v \in Values : PushBack(l, v)
    \/ \E l \in Lists, v \in Values : PushFront(l, v)
    \/ \E l \in Lists : PopFront(l)
    \/ \E l \in Lists, n \in Ptr : RemoveNode(l, n)
    \/ \E l \in Lists, index \in Indices : At(l, index)

SpecAt == Init /\ [][NextAt]_vars

\* A client of the safe API: safe pushes, pops and reads, and the raw pops
\* a call of the safe API returns a zres: field res, where the raw calls have ret
SafeCall(op, res) == [op |-> op, res |-> res, freed |-> 0]

PushBackSafeWith(l, v, a) ==
    /\ LET r == zlist_push_back_safe(Mem, l, v, a)
       IN /\ Commit(r.m)
          /\ last' = SafeCall("push_back_safe", r.res)
    /\ UNCHANGED <<detached, calls, alive, cursor, frame>>

PushFrontSafeWith(l, v, a) ==
    /\ LET r == zlist_push_front_safe(Mem, l, v, a)
       IN /\ Commit(r.m)
          /\ last' = SafeCall("push_front_safe", r.res)
    /\ UNCHANGED <<detached, calls, alive, cursor, frame>>

PushBackSafe(l, v) == \E a \in AllocOutcomes(Mem) : PushBackSafeWith(l, v, a)

PushFrontSafe(l, v) == \E a \in AllocOutcomes(Mem) : PushFrontSafeWith(l, v, a)

\* a safe call that left memory m, with the blocks it gave to ZLIST_FREE
SafeFreeingCall(op, res, m) ==
    [op |-> op, res |-> res, freed |-> Cardinality(live \ m.live)]

PopBackSafe(l) ==
    /\ LET r == zlist_pop_back_safe(Mem, l)
       IN /\ Commit(r.m)
          /\ last' = SafeFreeingCall("pop_back_safe", r.res, r.m)
    /\ UNCHANGED <<detached, calls, alive, cursor, frame>>

PopFrontSafe(l) ==
    /\ LET r == zlist_pop_front_safe(Mem, l)
       IN /\ Commit(r.m)
          /\ last' = SafeFreeingCall("pop_front_safe", r.res, r.m)
    /\ UNCHANGED <<detached, calls, alive, cursor, frame>>

FrontSafe(l) ==
    /\ LET r == zlist_front_safe(Mem, l)
       IN /\ Commit(r.m)
          /\ last' = SafeCall("front_safe", r.res)
    /\ UNCHANGED <<detached, calls, alive, cursor, frame>>

BackSafe(l) ==
    /\ LET r == zlist_back_safe(Mem, l)
       IN /\ Commit(r.m)
          /\ last' = SafeCall("back_safe", r.res)
    /\ UNCHANGED <<detached, calls, alive, cursor, frame>>

NextSafe ==
    \/ \E l \in Lists, v \in Values : PushBackSafe(l, v)
    \/ \E l \in Lists, v \in Values : PushFrontSafe(l, v)
    \/ \E l \in Lists : PopBack(l)
    \/ \E l \in Lists : PopFront(l)
    \/ \E l \in Lists : PopBackSafe(l)
    \/ \E l \in Lists : PopFrontSafe(l)
    \/ \E l \in Lists : FrontSafe(l)
    \/ \E l \in Lists : BackSafe(l)

SpecSafe == Init /\ [][NextSafe]_vars

\* A client that builds lists and walks them with the safe loops, removing the
\* current node in the iterations it chooses
\* the iterations a loop over list l makes: one per node
Iterations(l) == 1..lists[l].length

\* a finished loop: the iterations that removed, the nodes the body saw and the
\* blocks it freed
LoopCall(op, Removing, visited, m) ==
    [op |-> op, removing |-> Removing, visited |-> visited,
     freed |-> Cardinality(live \ m.live)]

ForeachSafe(l, Removing) ==
    /\ LET r == zlist_foreach_safe(Mem, l, Removing)
       IN /\ Commit(r.m)
          /\ last' = LoopCall("foreach_safe", Removing, r.visited, r.m)
    /\ UNCHANGED <<detached, calls, alive, cursor, frame>>

ForeachRevSafe(l, Removing) ==
    /\ LET r == zlist_foreach_rev_safe(Mem, l, Removing)
       IN /\ Commit(r.m)
          /\ last' = LoopCall("foreach_rev_safe", Removing, r.visited, r.m)
    /\ UNCHANGED <<detached, calls, alive, cursor, frame>>

NextLoop ==
    \/ \E l \in Lists, v \in Values : PushBack(l, v)
    \/ \E l \in Lists : \E Removing \in SUBSET Iterations(l) : ForeachSafe(l, Removing)
    \/ \E l \in Lists : \E Removing \in SUBSET Iterations(l) : ForeachRevSafe(l, Removing)

SpecLoop == Init /\ [][NextLoop]_vars

\* A client of the C++ wrapper: it constructs, uses and destroys containers
\* a member function has returned or thrown: the exception, the value or
\* iterator node returned, and the blocks given to ZLIST_FREE
MethodCall(op, thrown, ret, m) ==
    [op |-> op, thrown |-> thrown, ret |-> ret,
     freed |-> Cardinality(live \ m.live)]

\* the sequences of values of an initializer list, and the pushes of a call
\* that makes n of them at which ZLIST_MALLOC may be made to fail (0: at none)
InitializerLists == UNION {[1..k -> Values] : k \in 0..MaxNodes}
FailPoints(n) == 0..n

\* a constructor that throws ends no lifetime and begins none: the storage of
\* the object is given up, its contents indeterminate (one representative)
Constructed(l, r, op) ==
    /\ l \notin alive
    /\ IF r.thrown = NoThrow
       THEN Commit(r.m) /\ alive' = alive \cup {l}
       ELSE Commit([r.m EXCEPT !.lists[l] = EmptyList]) /\ alive' = alive
    /\ last' = MethodCall(op, r.thrown, NULL, r.m)
    /\ UNCHANGED <<detached, calls, cursor, frame>>

\* a member function of an object within its lifetime
Method(l, r, op, ret) ==
    /\ l \in alive
    /\ Commit(r.m)
    /\ last' = MethodCall(op, r.thrown, ret, r.m)
    /\ UNCHANGED <<detached, calls, alive, cursor, frame>>

Construct(l) == Constructed(l, list_ctor(Mem, l), "list()")

ConstructInit(l, init, failAt) ==
    Constructed(l, list_ctor_init(Mem, l, init, failAt), "list(init)")

ConstructCopy(l, other, failAt) ==
    /\ other \in alive
    /\ Constructed(l, list_ctor_copy(Mem, l, other, failAt), "list(const list &)")

ConstructMove(l, other) ==
    /\ other \in alive
    /\ Constructed(l, list_ctor_move(Mem, l, other), "list(list &&)")

Destroy(l) ==
    /\ l \in alive
    /\ LET r == list_dtor(Mem, l)
       IN /\ Commit(r.m)
          /\ last' = MethodCall("~list()", r.thrown, NULL, r.m)
    /\ alive' = alive \ {l}
    /\ UNCHANGED <<detached, calls, cursor, frame>>

AssignCopy(l, other, failAt) ==
    /\ other \in alive
    /\ Method(l, list_assign_copy(Mem, l, other, failAt), "operator=(const list &)", NULL)

AssignMove(l, other) ==
    /\ other \in alive
    /\ Method(l, list_assign_move(Mem, l, other), "operator=(list &&)", NULL)

ListFront(l) == Method(l, list_front(Mem, l), "front", list_front(Mem, l).ret)

ListBack(l) == Method(l, list_back(Mem, l), "back", list_back(Mem, l).ret)

ListPushBack(l, v) ==
    \E a \in AllocOutcomes(Mem) :
        Method(l, list_push_back(Mem, l, v, a), "list::push_back", NULL)

ListPushFront(l, v) ==
    \E a \in AllocOutcomes(Mem) :
        Method(l, list_push_front(Mem, l, v, a), "list::push_front", NULL)

ListPopBack(l) == Method(l, list_pop_back(Mem, l), "list::pop_back", NULL)

ListPopFront(l) == Method(l, list_pop_front(Mem, l), "list::pop_front", NULL)

ListClear(l) == Method(l, list_clear(Mem, l), "list::clear", NULL)

ListReverse(l) == Method(l, list_reverse(Mem, l), "list::reverse", NULL)

\* pos is an iterator of this container: one of its nodes, or end()
ListInsertAfter(l, pos, v) ==
    /\ pos \in NodesOf(Mem, l) \cup {NULL}
    /\ \E a \in AllocOutcomes(Mem) :
           Method(l, list_insert_after(Mem, l, pos, v, a), "list::insert_after",
                  list_insert_after(Mem, l, pos, v, a).ret)

ListErase(l, pos) ==
    /\ pos \in NodesOf(Mem, l) \cup {NULL}
    /\ Method(l, list_erase(Mem, l, pos), "erase", list_erase(Mem, l, pos).ret)

ListSplice(l, source) ==
    /\ source \in alive
    /\ Method(l, [m |-> list_splice(Mem, l, source), thrown |-> NoThrow],
              "list::splice", NULL)

NextCpp ==
    \/ \E l \in Lists : Construct(l)
    \/ \E l \in Lists, init \in InitializerLists :
           \E failAt \in FailPoints(Len(init)) : ConstructInit(l, init, failAt)
    \/ \E l \in Lists, other \in Lists :
           \E failAt \in FailPoints(lists[other].length) :
               ConstructCopy(l, other, failAt)
    \/ \E l \in Lists, other \in Lists : ConstructMove(l, other)
    \/ \E l \in Lists : Destroy(l)
    \/ \E l \in Lists, other \in Lists :
           \E failAt \in FailPoints(lists[other].length) :
               AssignCopy(l, other, failAt)
    \/ \E l \in Lists, other \in Lists : AssignMove(l, other)
    \/ \E l \in Lists : ListFront(l)
    \/ \E l \in Lists : ListBack(l)
    \/ \E l \in Lists, v \in Values : ListPushBack(l, v)
    \/ \E l \in Lists, v \in Values : ListPushFront(l, v)
    \/ \E l \in Lists : ListPopBack(l)
    \/ \E l \in Lists : ListPopFront(l)
    \/ \E l \in Lists : ListClear(l)
    \/ \E l \in Lists : ListReverse(l)
    \/ \E l \in Lists, pos \in Ptr, v \in Values : ListInsertAfter(l, pos, v)
    \/ \E l \in Lists, pos \in Ptr : ListErase(l, pos)
    \/ \E l \in Lists, source \in Lists : ListSplice(l, source)

SpecCpp == Init /\ [][NextCpp]_vars

\* A client that copies containers: test_rule_of_five, with pushes and pops
NextCopy ==
    \/ \E l \in Lists : Construct(l)
    \/ \E l \in Lists, other \in Lists :
           \E failAt \in FailPoints(lists[other].length) :
               ConstructCopy(l, other, failAt)
    \/ \E l \in Lists, other \in Lists :
           \E failAt \in FailPoints(lists[other].length) :
               AssignCopy(l, other, failAt)
    \/ \E l \in Lists : Destroy(l)
    \/ \E l \in Lists, v \in Values : ListPushBack(l, v)
    \/ \E l \in Lists : ListPopFront(l)

SpecCopy == Init /\ [][NextCopy]_vars

\* A client that moves containers: test_rule_of_five
NextMove ==
    \/ \E l \in Lists : Construct(l)
    \/ \E l \in Lists, v \in Values : ListPushBack(l, v)
    \/ \E l \in Lists, other \in Lists : ConstructMove(l, other)
    \/ \E l \in Lists, other \in Lists : AssignMove(l, other)
    \/ \E l \in Lists : Destroy(l)

SpecMove == Init /\ [][NextMove]_vars

\* A client that constructs and destroys containers: test_constructors
NextCtor ==
    \/ \E l \in Lists : Construct(l)
    \/ \E l \in Lists, init \in InitializerLists :
           \E failAt \in FailPoints(Len(init)) : ConstructInit(l, init, failAt)
    \/ \E l \in Lists : Destroy(l)

SpecCtor == Init /\ [][NextCtor]_vars

\* A client that pushes, reads and pops at both ends: test_access_modifiers
NextAccess ==
    \/ \E l \in Lists : Construct(l)
    \/ \E l \in Lists, v \in Values : ListPushBack(l, v)
    \/ \E l \in Lists, v \in Values : ListPushFront(l, v)
    \/ \E l \in Lists : ListFront(l)
    \/ \E l \in Lists : ListBack(l)
    \/ \E l \in Lists : ListPopFront(l)
    \/ \E l \in Lists : ListPopBack(l)
    \/ \E l \in Lists : Destroy(l)

SpecAccess == Init /\ [][NextAccess]_vars

\* A client that fills containers and erases at iterators: the README's erase
NextErase ==
    \/ \E l \in Lists : Construct(l)
    \/ \E l \in Lists, v \in Values : ListPushBack(l, v)
    \/ \E l \in Lists, pos \in Nodes \cup {NULL} : ListErase(l, pos)
    \/ \E l \in Lists : Destroy(l)

SpecErase == Init /\ [][NextErase]_vars

\* A client that fills containers and inserts at iterators
NextInsert ==
    \/ \E l \in Lists : Construct(l)
    \/ \E l \in Lists, v \in Values : ListPushBack(l, v)
    \/ \E l \in Lists, pos \in Nodes \cup {NULL}, v \in Values :
           ListInsertAfter(l, pos, v)
    \/ \E l \in Lists : Destroy(l)

SpecInsert == Init /\ [][NextInsert]_vars

\* A client that holds one iterator: it takes begin() or end() of a container,
\* reads through it and steps it
IteratorCall(op, i, m) ==
    /\ Commit(m)
    /\ cursor' = i
    /\ last' = MethodCall(op, NoThrow, i.current, m)
    /\ UNCHANGED <<detached, calls, alive, frame>>

Begin(l) == l \in alive /\ IteratorCall("begin", list_begin(Mem, l), Mem)

End(l) == l \in alive /\ IteratorCall("end", list_end(Mem, l), Mem)

\* *it, on an iterator that refers to an element
Star ==
    /\ cursor.current # NULL
    /\ LET r == iterator_deref(Mem, cursor)
       IN /\ Commit(r.m)
          /\ last' = MethodCall("operator*", NoThrow, r.ret, r.m)
    /\ UNCHANGED <<detached, calls, alive, cursor, frame>>

Increment ==
    /\ cursor.list_ptr \in alive
    /\ LET r == iterator_inc(Mem, cursor) IN IteratorCall("operator++", r.it, r.m)

Decrement ==
    /\ cursor.list_ptr \in alive
    /\ LET r == iterator_dec(Mem, cursor) IN IteratorCall("operator--", r.it, r.m)

\* it = l.erase(it): the iterator whose element is removed is replaced
EraseAtIterator ==
    /\ cursor.list_ptr \in alive
    /\ cursor.current \in NodesOf(Mem, cursor.list_ptr)
    /\ LET r == list_erase(Mem, cursor.list_ptr, cursor.current)
       IN /\ Commit(r.m)
          /\ cursor' = iterator(cursor.list_ptr, r.ret)
          /\ last' = MethodCall("it = erase(it)", r.thrown, r.ret, r.m)
    /\ UNCHANGED <<detached, calls, alive, frame>>

\* A client that walks containers in both directions and erases at its
\* iterator: test_stl_interop
NextWalk ==
    \/ \E l \in Lists : Construct(l)
    \/ \E l \in Lists, v \in Values : ListPushBack(l, v)
    \/ \E l \in Lists : Begin(l)
    \/ \E l \in Lists : End(l)
    \/ Star
    \/ Increment
    \/ Decrement
    \/ EraseAtIterator

SpecWalk == Init /\ [][NextWalk]_vars

\* A client that changes containers to which it holds iterators: every call of
\* the wrapper that adds, removes or relinks elements
NextIter ==
    \/ \E l \in Lists : Construct(l)
    \/ \E l \in Lists, v \in Values : ListPushBack(l, v)
    \/ \E l \in Lists, v \in Values : ListPushFront(l, v)
    \/ \E l \in Lists : ListPopBack(l)
    \/ \E l \in Lists : ListPopFront(l)
    \/ \E l \in Lists, pos \in Nodes \cup {NULL}, v \in Values :
           ListInsertAfter(l, pos, v)
    \/ \E l \in Lists, pos \in Nodes \cup {NULL} : ListErase(l, pos)
    \/ \E l \in Lists : ListReverse(l)
    \/ \E l \in Lists, source \in Lists : ListSplice(l, source)

SpecIter == Init /\ [][NextIter]_vars

\* A zres function in the manner of process_numbers: it declares an autofree
\* list nums and executes up to MaxLines statements, each a checked call of
\* the safe API, a list_clear or the final return zres_ok()
EnterFunction(l) ==
    /\ frame.pc # "body"
    /\ lists[l] = EmptyList
    /\ Commit([Mem EXCEPT !.lists[l] = zlist_init])
    /\ frame' = [pc |-> "body", nums |-> l, line |-> 1, ret |-> zres_ok]
    /\ last' = SafeCall("zlist_autofree nums = list_init", zres_ok)
    /\ UNCHANGED <<detached, calls, alive, cursor>>

\* a statement whose safe call left memory m with result res and whose check
\* or try is c: the function returns c.ret, leaving the scope of nums, or
\* goes on to the next line
Statement(op, m, res, c) ==
    /\ IF c.returns
       THEN /\ Commit(zlist_autofree(m, frame.nums))
            /\ last' = SafeFreeingCall(op, res, zlist_autofree(m, frame.nums))
            /\ frame' = [frame EXCEPT !.pc = "returned", !.ret = c.ret]
       ELSE /\ Commit(m)
            /\ last' = SafeFreeingCall(op, res, m)
            /\ frame' = [frame EXCEPT !.line = @ + 1]
    /\ UNCHANGED <<detached, calls, alive, cursor>>

InBody == frame.pc = "body" /\ frame.line <= MaxLines

CheckPushBack(v) ==
    /\ InBody
    /\ \E a \in AllocOutcomes(Mem) :
           LET r == zlist_push_back_safe(Mem, frame.nums, v, a)
               res == WithLocation(r.res, frame.line)
           IN Statement("check_ctx(list_push_back_safe)", r.m, res,
                        Z_CHECK_CTX(res, "list_push_back_safe(&nums, v)",
                                    "Failed to push"))

CheckPopBack ==
    /\ InBody
    /\ LET r == zlist_pop_back_safe(Mem, frame.nums)
           res == WithLocation(r.res, frame.line)
       IN Statement("check(list_pop_back_safe)", r.m, res,
                    Z_CHECK(res, "list_pop_back_safe(&nums)"))

TryFront ==
    /\ InBody
    /\ LET r == zlist_front_safe(Mem, frame.nums)
           res == WithLocation(r.res, frame.line)
       IN Statement("try_into(list_front_safe)", r.m, res,
                    Z_TRY_INTO(res, "list_front_safe(&nums)"))

TryBack ==
    /\ InBody
    /\ LET r == zlist_back_safe(Mem, frame.nums)
           res == WithLocation(r.res, frame.line)
       IN Statement("try_into(list_back_safe)", r.m, res,
                    Z_TRY_INTO(res, "list_back_safe(&nums)"))

ClearStatement ==
    /\ InBody
    /\ Statement("list_clear", zlist_clear(Mem, frame.nums), zres_ok,
                 [returns |-> FALSE, ret |-> zres_ok])

\* return zres_ok(); at the end of the body
ReturnOk ==
    /\ frame.pc = "body"
    /\ Statement("return zres_ok()", Mem, zres_ok,
                 [returns |-> TRUE, ret |-> zres_ok])

\* a list of the caller's, which the function does not touch
CallerPushBack(l, v) == l # frame.nums /\ lists[l].length < 1 /\ PushBack(l, v)

NextScope ==
    \/ \E l \in Lists : EnterFunction(l)
    \/ \E v \in Values : CheckPushBack(v)
    \/ CheckPopBack
    \/ TryFront
    \/ TryBack
    \/ ClearStatement
    \/ ReturnOk
    \/ \E l \in Lists, v \in Values : CallerPushBack(l, v)

SpecScope == Init /\ [][NextScope]_vars

\* A client that fills lists and takes nodes out of them, by detach_node or by
\* remove_node: example_0.c and example_2.c
NextUnlink ==
    \/ \E l \in Lists, v \in Values : PushBack(l, v)
    \/ \E l \in Lists, v \in Values : PushFront(l, v)
    \/ \E l \in Lists, n \in Ptr : RemoveNode(l, n)
    \/ \E l \in Lists, n \in Ptr : DetachNode(l, n)
    \/ \E n \in Nodes : FreeDetached(n)

SpecUnlink == Init /\ [][NextUnlink]_vars

\* the queries of the engine: a boolean comes back as the int it is in C
IsEmpty(l) ==
    /\ Commit(Mem)
    /\ last' = Call("is_empty", IF zlist_is_empty(Mem, l) THEN 1 ELSE 0)
    /\ UNCHANGED <<detached, calls, alive, cursor, frame>>

HeadOf(l) ==
    /\ Commit(Mem)
    /\ last' = Call("head", zlist_head(Mem, l))
    /\ UNCHANGED <<detached, calls, alive, cursor, frame>>

TailOf(l) ==
    /\ Commit(Mem)
    /\ last' = Call("tail", zlist_tail(Mem, l))
    /\ UNCHANGED <<detached, calls, alive, cursor, frame>>

\* A client that fills lists, queries them and relinks their nodes
NextQuery ==
    \/ \E l \in Lists, v \in Values : PushBack(l, v)
    \/ \E l \in Lists : IsEmpty(l)
    \/ \E l \in Lists, index \in Indices : At(l, index)
    \/ \E l \in Lists : HeadOf(l)
    \/ \E l \in Lists : TailOf(l)
    \/ \E l \in Lists : FrontSafe(l)
    \/ \E l \in Lists : BackSafe(l)
    \/ \E l \in Lists : Reverse(l)
    \/ \E d \in Lists, s \in Lists : Splice(d, s)
    \/ \E l \in Lists, n \in Ptr : DetachNode(l, n)
    \/ \E n \in Nodes : FreeDetached(n)

SpecQuery == Init /\ [][NextQuery]_vars

\* ----------------------------------------------------------------- claims
\* The properties of the engine, each under the specification that exercises it.

IsSeqOfDistinct(q) == \A i, j \in 1..Len(q) : i # j => q[i] # q[j]

Rev(q) == [i \in 1..Len(q) |-> q[Len(q) + 1 - i]]

\* C1: after any sequence of public calls made within their preconditions, with
\* the allocator free to fail at every push and insert, every handle has
\* head == NULL exactly when tail == NULL exactly when length == 0.
C1_HeadTailLength ==
    \A l \in Lists :
        /\ (lists[l].head = NULL) <=> (lists[l].tail = NULL)
        /\ (lists[l].tail = NULL) <=> (lists[l].length = 0)

\* a pop_back has just emptied a list while the other handle still holds nodes
C1_Witness ==
    /\ last.op = "pop_back"
    /\ \E l \in Lists : lists[l] = EmptyList
    /\ \E l \in Lists : lists[l].head # NULL /\ lists[l].length >= 2

\* C2: in every reachable state, every allocated node n has n.prev.next == n
\* when n.prev exists and n.next.prev == n when n.next exists.
C2_LinksSymmetric ==
    \A n \in live :
        /\ Prev(Mem, n) # NULL => Nxt(Mem, Prev(Mem, n)) = n
        /\ Nxt(Mem, n) # NULL => Prev(Mem, Nxt(Mem, n)) = n

\* an insert_after has just put a node between two others
C2_Witness ==
    /\ last = Call("insert_after", Z_OK)
    /\ \E l \in Lists :
        /\ lists[l].length = 3
        /\ \E n \in NodesOf(Mem, l) : Prev(Mem, n) # NULL /\ Nxt(Mem, n) # NULL

\* C3: in every reachable state the successor chain of every handle ends (no
\* cycle), visits no node twice, and holds exactly length nodes.
C3_AcyclicAndCounted ==
    \A l \in Lists :
        /\ Len(zlist_foreach(Mem, l)) <= MaxNodes
        /\ IsSeqOfDistinct(zlist_foreach(Mem, l))
        /\ lists[l].length = Len(zlist_foreach(Mem, l))
        /\ lists[l].length = Cardinality(NodesOf(Mem, l))

\* detach_node has just taken a node out of a list that still holds two
C3_Witness ==
    /\ last.op = "detach_node"
    /\ last.ret # NULL
    /\ \E l \in Lists : lists[l].length = 2 /\ Len(zlist_foreach(Mem, l)) = 2

\* C4: in every reachable state the forward traversal from head visits exactly
\* length nodes and the last one is tail, and the backward traversal from tail
\* visits exactly length nodes and the last one is head (the same nodes, in the
\* opposite order).
C4_WalksMeetEnds ==
    \A l \in Lists :
        LET fwd == zlist_foreach(Mem, l)
            bwd == zlist_foreach_rev(Mem, l)
        IN /\ Len(fwd) = lists[l].length
           /\ Len(bwd) = lists[l].length
           /\ fwd # <<>> => /\ fwd[Len(fwd)] = lists[l].tail
                            /\ Nxt(Mem, lists[l].tail) = NULL
           /\ bwd # <<>> => /\ bwd[Len(bwd)] = lists[l].head
                            /\ Prev(Mem, lists[l].head) = NULL
           /\ bwd = Rev(fwd)

\* a push_front has just made a list of three nodes
C4_Witness ==
    /\ last = Call("push_front", Z_OK)
    /\ \E l \in Lists : lists[l].length = 3 /\ Len(zlist_foreach_rev(Mem, l)) = 3

\* C5: no node is reachable from two handles, no detached or deallocated node is
\* reachable from any handle, and a splice between two handles or a detach_node
\* leaves the nodes given up unreachable from the handle that gave them up.
C5_NoSharing ==
    /\ \A l1, l2 \in Lists : l1 # l2 => NodesOf(Mem, l1) \cap NodesOf(Mem, l2) = {}
    /\ \A l \in Lists : NodesOf(Mem, l) \subseteq live \ detached
    /\ detached \subseteq live

C5_Transfer ==
    /\ last'.op = "splice" =>
        \A d, s \in Lists :
            (d # s /\ Splice(d, s)) =>
                /\ NodesOf(Mem', s) = {}
                /\ NodesOf(Mem, s) \subseteq NodesOf(Mem', d)
    /\ last'.op = "detach_node" =>
        \A l \in Lists, n \in Nodes :
            DetachNode(l, n) =>
                /\ n \notin NodesOf(Mem', l)
                /\ n \in detached'

\* C5: exclusive ownership, in every state and across every splice and detach_node
C5_ExclusiveOwnership == []C5_NoSharing /\ [][C5_Transfer]_vars

\* a splice has just moved nodes while the caller holds a detached node
C5_Witness ==
    /\ last.op = "splice"
    /\ detached # {}
    /\ \E d, s \in Lists : d # s /\ lists[d].length >= 2 /\ lists[s] = EmptyList

\* the values of a log of pushes, and those of its pushes of one kind
Vals(c) == [i \in 1..Len(c) |-> c[i].v]
IsBack(e) == e.kind = "back"
IsFront(e) == e.kind = "front"

\* C6: N successful push_back calls on an empty list give length N and a forward
\* traversal in insertion order; N successful push_front calls give length N and
\* a forward traversal in reverse insertion order; mixed, the values pushed at
\* the front come first, latest first, then those pushed at the back, in order.
C6_PushOrder ==
    \A l \in Lists :
        LET c == calls[l]
            got == ValuesOf(Mem, l)
        IN /\ lists[l].length = Len(c)
           /\ (\A i \in 1..Len(c) : IsBack(c[i])) => got = Vals(c)
           /\ (\A i \in 1..Len(c) : IsFront(c[i])) => got = Rev(Vals(c))
           /\ got = Rev(Vals(SelectSeq(c, IsFront))) \o Vals(SelectSeq(c, IsBack))
           /\ c # <<>> => /\ Val(Mem, lists[l].head) = got[1]
                          /\ Val(Mem, lists[l].tail) = got[Len(got)]

\* push_back 1, push_back 2, push_front 1 on an empty list: [1, 1, 2]
C6_Witness ==
    \E l \in Lists :
        /\ calls[l] = << [kind |-> "back", v |-> 1], [kind |-> "back", v |-> 2],
                         [kind |-> "front", v |-> 1] >>
        /\ ValuesOf(Mem, l) = <<1, 1, 2>>

\* C7: when the allocator fails, push_back, push_front and insert_after return
\* Z_ENOMEM (and Z_OK otherwise) without faulting, and every handle's head, tail
\* and length and every node's links and value are as before the call.  The
\* allocator failed exactly when the call left no new block allocated.
C7_Step ==
    last'.op \in {"push_back", "push_front", "insert_after"} =>
        /\ ~fault'
        /\ live' = live => last'.ret = Z_ENOMEM
        /\ live' # live => last'.ret = Z_OK /\ Cardinality(live') = Cardinality(live) + 1
        /\ last'.ret = Z_ENOMEM => UNCHANGED <<lists, nodes, live, detached>>

\* C7: a failed allocation returns Z_ENOMEM and changes nothing, at every step
C7_FailedAllocationChangesNothing == [][C7_Step]_vars

\* an insert_after has just failed on a list that holds two nodes, with a block
\* still free in the heap
C7_Witness ==
    /\ last = Call("insert_after", Z_ENOMEM)
    /\ \E l \in Lists : lists[l].length = 2
    /\ live # Nodes

\* C8: splice(A, B) on two distinct handles, A = [a1..am] and B = [b1..bn] with
\* any m, n >= 0, leaves A = [a1..am, b1..bn] (the same nodes, the same values),
\* A.length = m + n, A.tail the former B.tail when n > 0, and B empty; the C++
\* wrapper's splice does the same.
C8_Step ==
    last'.op \in {"splice", "list_splice"} =>
        \A d, s \in Lists :
            (d # s /\ (Splice(d, s) \/ WrapperSplice(d, s))) =>
                /\ zlist_foreach(Mem', d) = zlist_foreach(Mem, d) \o zlist_foreach(Mem, s)
                /\ ValuesOf(Mem', d) = ValuesOf(Mem, d) \o ValuesOf(Mem, s)
                /\ lists'[d].length = lists[d].length + lists[s].length
                /\ lists[s].length > 0 => lists'[d].tail = lists[s].tail
                /\ lists'[s] = EmptyList
                /\ zlist_foreach(Mem', s) = <<>>
                /\ ~fault'

\* C8: the splice content law, at every splice step between two handles
C8_SpliceContent == [][C8_Step]_vars

\* a splice has just left one handle with three nodes and the other empty
C8_Witness ==
    /\ last.op = "splice"
    /\ \E d, s \in Lists :
        /\ d # s
        /\ lists[d].length = 3
        /\ ValuesOf(Mem, d) = <<1, 2, 1>>
        /\ lists[s] = EmptyList

C9_Step ==
    last'.op = "splice" =>
        \A d, s \in Lists :
            Splice(d, s) =>
                /\ d # s => lists'[s] = EmptyList
                /\ d = s => UNCHANGED <<lists, nodes, live>>
                /\ ~fault'

C10_Step ==
    last'.op = "reverse" =>
        \A l \in Lists :
            Reverse(l) =>
                LET again == zlist_reverse(Mem', l)
                IN /\ again.lists = lists
                   /\ again.nodes = nodes
                   /\ again.live = live
                   /\ ~again.fault

\* C10: reverse is an involution, at every reverse step
C10_ReverseInvolution == [][C10_Step]_vars

\* a reverse has just run on a list of three nodes
C10_Witness ==
    /\ last.op = "reverse"
    /\ \E l \in Lists : lists[l].length = 3 /\ ValuesOf(Mem, l) = <<1, 1, 2>>

\* C11: after reverse(L) the forward traversal yields the former nodes, and so
\* the former elements, in exactly reversed order; head is the former tail,
\* tail the former head, and length is unchanged.
C11_Step ==
    last'.op = "reverse" =>
        \A l \in Lists :
            Reverse(l) =>
                /\ ~fault'
                /\ zlist_foreach(Mem', l) = Rev(zlist_foreach(Mem, l))
                /\ ValuesOf(Mem', l) = Rev(ValuesOf(Mem, l))
                /\ lists'[l].head = lists[l].tail
                /\ lists'[l].tail = lists[l].head
                /\ lists'[l].length = lists[l].length
                /\ live' = live

\* C11: reverse reverses the traversal and swaps head and tail, at every reverse step
C11_ReverseOrder == [][C11_Step]_vars

\* a reverse has just run and left a list of three nodes that is no palindrome
C11_Witness ==
    /\ last.op = "reverse"
    /\ \E l \in Lists : lists[l].length = 3 /\ ValuesOf(Mem, l) = <<2, 1, 1>>

\* the sequence q with every occurrence of n left out
Without(q, n) == SelectSeq(q, LAMBDA x : x # n)

\* C12: for any node n of L (head, tail, middle or only node), detach_node(L, n)
\* decreases L.length by exactly 1, makes n unreachable from L, returns n with
\* prev and next cleared, and does not deallocate n: its value stays readable.
C12_Step ==
    last'.op = "detach_node" =>
        \A l \in Lists, n \in Nodes :
            DetachNode(l, n) =>
                /\ ~fault'
                /\ last'.ret = n
                /\ lists'[l].length = lists[l].length - 1
                /\ n \notin NodesOf(Mem', l)
                /\ zlist_foreach(Mem', l) = Without(zlist_foreach(Mem, l), n)
                /\ zlist_foreach_rev(Mem', l) = Rev(zlist_foreach(Mem', l))
                /\ \A k \in live' : nodes'[k].prev # n /\ nodes'[k].next # n
                /\ \A k \in Lists : lists'[k].head # n /\ lists'[k].tail # n
                /\ nodes'[n].prev = NULL /\ nodes'[n].next = NULL
                /\ nodes'[n].value = nodes[n].value
                /\ live' = live
                /\ last'.freed = 0

\* C12: detach_node unlinks and isolates the node and keeps it allocated, at
\* every detach step
C12_DetachIsolates == [][C12_Step]_vars

\* detach_node has just returned a node: it is still allocated and isolated,
\* and the list it left still holds two nodes
C12_Witness ==
    /\ last.op = "detach_node"
    /\ last.ret \in live
    /\ nodes[last.ret].prev = NULL /\ nodes[last.ret].next = NULL
    /\ \E l \in Lists : lists[l].length = 2 /\ last.ret \notin NodesOf(Mem, l)

\* the first and the last element of a sequence of nodes, NULL when it is empty
First(q) == IF q = <<>> THEN NULL ELSE q[1]
Last(q) == IF q = <<>> THEN NULL ELSE q[Len(q)]

\* C13: for any node n of L (head, tail, middle or only node), remove_node(L, n)
\* deallocates n, decreases length by exactly 1 and leaves the other elements
\* in their former relative order, with head and tail updated accordingly.
C13_Step ==
    last'.op = "remove_node" =>
        \A l \in Lists, n \in Nodes :
            RemoveNode(l, n) =>
                LET rest == Without(zlist_foreach(Mem, l), n)
                IN /\ ~fault'
                   /\ live' = live \ {n}
                   /\ last'.freed = 1
                   /\ lists'[l].length = lists[l].length - 1
                   /\ zlist_foreach(Mem', l) = rest
                   /\ zlist_foreach_rev(Mem', l) = Rev(rest)
                   /\ ValuesOf(Mem', l) = [i \in 1..Len(rest) |-> nodes[rest[i]].value]
                   /\ lists'[l].head = First(rest)
                   /\ lists'[l].tail = Last(rest)
                   /\ \A k \in Lists \ {l} : lists'[k] = lists[k]

\* C13: remove_node frees the node and keeps the others in order, at every
\* remove_node step
C13_RemoveNode == [][C13_Step]_vars

\* remove_node has just freed a node and left two of the three allocated
C13_Witness ==
    /\ last.op = "remove_node"
    /\ last.freed = 1
    /\ \E l \in Lists : lists[l].length = 2 /\ ValuesOf(Mem, l) = <<1, 2>>

\* C14: raw pop_back and pop_front on an empty list are no-ops: head and tail
\* stay NULL, length stays 0, nothing is deallocated and nothing goes wrong.
C14_Step ==
    last'.op \in {"pop_back", "pop_front"} =>
        \A l \in Lists :
            (PopBack(l) \/ PopFront(l)) /\ lists[l].length = 0 =>
                /\ ~fault'
                /\ lists'[l] = EmptyList
                /\ UNCHANGED <<lists, nodes, live, detached>>
                /\ last'.freed = 0
                /\ last'.ret = Z_OK

\* C14: a pop on an empty list changes nothing, at every pop step
C14_PopEmptyIsNoOp == [][C14_Step]_vars

\* a pop_front has just returned without freeing a block, which it does on an
\* empty list only, while the other handle holds nodes
C14_Witness ==
    /\ last.op = "pop_front"
    /\ last.freed = 0
    /\ \E l \in Lists : lists[l] = EmptyList
    /\ \E l \in Lists : lists[l].length = 2

\* a sequence without its last element
Front(q) == SubSeq(q, 1, Len(q) - 1)

\* what a pop of list l that removed node n and left the walk rest must have
\* done: freed n and only n, shortened l by one and kept the others in order
Popped(l, n, rest) ==
    /\ ~fault'
    /\ live' = live \ {n}
    /\ last'.freed = 1
    /\ lists'[l].length = lists[l].length - 1
    /\ zlist_foreach(Mem', l) = rest
    /\ zlist_foreach_rev(Mem', l) = Rev(rest)
    /\ ValuesOf(Mem', l) = [i \in 1..Len(rest) |-> nodes[rest[i]].value]
    /\ lists'[l].head = First(rest)
    /\ lists'[l].tail = Last(rest)
    /\ rest = <<>> => lists'[l] = EmptyList
    /\ \A k \in Lists \ {l} : lists'[k] = lists[k]

\* C15: on any non-empty list pop_front unlinks and deallocates exactly the
\* head node and pop_back exactly the tail node: length decreases by 1, the
\* remaining elements keep their order, the new head (resp. tail) is the former
\* second (resp. second-to-last) node, and popping the only node empties the list.
C15_Step ==
    /\ last'.op = "pop_front" =>
           \A l \in Lists :
               PopFront(l) /\ lists[l].head # NULL =>
                   Popped(l, lists[l].head, Tail(zlist_foreach(Mem, l)))
    /\ last'.op = "pop_back" =>
           \A l \in Lists :
               PopBack(l) /\ lists[l].tail # NULL =>
                   Popped(l, lists[l].tail, Front(zlist_foreach(Mem, l)))

\* C15: a pop on a non-empty list removes exactly one end node, at every pop step
C15_PopRemovesEnd == [][C15_Step]_vars

\* a pop_back has just freed the tail of a three-element list
C15_Witness ==
    /\ last.op = "pop_back"
    /\ last.freed = 1
    /\ \E l \in Lists : lists[l].length = 2 /\ ValuesOf(Mem, l) = <<2, 1>>

\* memory m holds list l as the current state does: same length, same head and
\* tail nodes and values, same walk, and nothing else moved
Restores(m, l) ==
    /\ ~m.fault
    /\ m.lists[l].length = lists[l].length
    /\ Val(m, m.lists[l].head) = Val(Mem, lists[l].head)
    /\ Val(m, m.lists[l].tail) = Val(Mem, lists[l].tail)
    /\ ValuesOf(m, l) = ValuesOf(Mem, l)
    /\ m.lists = lists
    /\ m.nodes = nodes
    /\ m.live = live

\* C16: for any non-empty list and any value v, a successful push_back(v)
\* followed by pop_back() restores the prior length, the prior head and tail
\* values and the prior element sequence; so does push_front(v) followed by
\* pop_front().
C16_Step ==
    /\ last'.op = "push_back" /\ last'.ret = Z_OK =>
           \A l \in Lists, v \in Values :
               PushBack(l, v) /\ lists[l].head # NULL =>
                   Restores(zlist_pop_back(Mem', l), l)
    /\ last'.op = "push_front" /\ last'.ret = Z_OK =>
           \A l \in Lists, v \in Values :
               PushFront(l, v) /\ lists[l].head # NULL =>
                   Restores(zlist_pop_front(Mem', l), l)

\* C16: the pop of the same end undoes a successful push, at every push step
C16_PushPopInverse == [][C16_Step]_vars

\* a push_front has just succeeded on a list that held two elements
C16_Witness ==
    /\ last = Call("push_front", Z_OK)
    /\ \E l \in Lists : lists[l].length = 3 /\ ValuesOf(Mem, l) = <<2, 1, 2>>

\* the place of node n in the walk q, and q with x put right after that place
IndexOf(q, n) == CHOOSE i \in 1..Len(q) : q[i] = n
InsertedAfter(q, i, x) == SubSeq(q, 1, i) \o <<x>> \o SubSeq(q, i + 1, Len(q))

\* C17: a successful insert_after(L, n, v) with n a node of L places a new node
\* holding v immediately after n, increases length by exactly 1, keeps all
\* other elements in order, and makes the new node the tail exactly when n was
\* the tail; with n == NULL it gives exactly the state push_front(L, v) gives.
C17_Step ==
    last'.op = "insert_after" /\ last'.ret = Z_OK =>
        \A l \in Lists, v \in Values, a \in AllocOutcomes(Mem) \ {NULL} :
          \A p \in NodesOf(Mem, l) \cup {NULL} :
            InsertAfterWith(l, p, v, a) =>
                /\ ~fault'
                /\ p # NULL =>
                       LET old == zlist_foreach(Mem, l)
                           new == CHOOSE x \in live' \ live : TRUE
                           now == InsertedAfter(old, IndexOf(old, p), new)
                       IN /\ live' \ live # {} /\ live \subseteq live'
                          /\ nodes'[new].value = v
                          /\ nodes'[p].next = new /\ nodes'[new].prev = p
                          /\ zlist_foreach(Mem', l) = now
                          /\ zlist_foreach_rev(Mem', l) = Rev(now)
                          /\ \A k \in live : nodes'[k].value = nodes[k].value
                          /\ lists'[l].length = lists[l].length + 1
                          /\ lists'[l].head = lists[l].head
                          /\ (lists'[l].tail = new) <=> (lists[l].tail = p)
                          /\ lists[l].tail # p => lists'[l].tail = lists[l].tail
                          /\ \A k \in Lists \ {l} : lists'[k] = lists[k]
                /\ p = NULL =>
                       LET r == zlist_push_front(Mem, l, v, a)
                       IN r.ret = Z_OK /\ r.m = Mem'

\* C17: insert_after puts the new node right after the given one, or at the
\* front for NULL, at every successful insert_after step
C17_InsertAfter == [][C17_Step]_vars

\* an insert_after has just succeeded and the list holds three elements with
\* the new one, the last block of the heap, in the middle
C17_Witness ==
    /\ last = Call("insert_after", Z_OK)
    /\ \E l \in Lists :
           /\ lists[l].length = 3
           /\ zlist_foreach(Mem, l)[2] = MaxNodes
           /\ ValuesOf(Mem, l) = <<1, 2, 1>>

\* C18: at(L, i) returns the node that is i successor-steps from head when
\* i < length and NULL when i >= length, every index on an empty list
\* included; it never walks past the tail and never changes the list.
C18_Step ==
    last'.op = "at" =>
        \A l \in Lists, index \in Indices :
            At(l, index) =>
                LET walk == zlist_foreach(Mem, l)
                IN /\ ~fault'
                   /\ UNCHANGED <<lists, nodes, live, detached>>
                   /\ index < lists[l].length => last'.ret = walk[index + 1]
                   /\ index >= lists[l].length => last'.ret = NULL
                   /\ last'.freed = 0

\* C18: at returns the node at the index or NULL, at every at step
C18_AtIndex == [][C18_Step]_vars

\* at has just returned the tail of a three-element list, two steps from head
C18_Witness ==
    /\ last.op = "at"
    /\ last.ret # NULL
    /\ \E l \in Lists :
           /\ lists[l].length = 3
           /\ last.ret = lists[l].tail
           /\ last.ret = zlist_foreach(Mem, l)[3]

\* C19: clear(L) deallocates every node of L exactly once and leaves
\* head == NULL, tail == NULL and length == 0; on an already empty list it
\* deallocates nothing and leaves it empty, so clear is idempotent.
C19_Step ==
    last'.op = "clear" =>
        \A l \in Lists :
            Clear(l) =>
                LET again == zlist_clear(Mem', l)
                IN /\ ~fault'
                   /\ live' = live \ NodesOf(Mem, l)
                   /\ last'.freed = lists[l].length
                   /\ lists'[l] = EmptyList
                   /\ \A k \in Lists \ {l} : lists'[k] = lists[k]
                   /\ \A n \in live' : nodes'[n] = nodes[n]
                   /\ lists[l] = EmptyList => UNCHANGED <<lists, nodes, live>>
                   /\ again = Mem'

\* C19: clear frees exactly the nodes of the list and empties the handle, at
\* every clear step
C19_ClearFreesAll == [][C19_Step]_vars

\* a clear has just freed the two nodes of a list while the other list keeps its node
C19_Witness ==
    /\ last.op = "clear"
    /\ last.freed = 2
    /\ Cardinality(live) = 1
    /\ \E l \in Lists : lists[l] = EmptyList
    /\ \E l \in Lists : lists[l].length = 1

\* C20: a safe push (push_back_safe or push_front_safe) made while the
\* allocator is exhausted returns a failure Result whose error code is
\* Z_ENOMEM and leaves the list's length, head and tail unchanged; when
\* allocation succeeds it returns success.
C20_Step ==
    last'.op \in {"push_back_safe", "push_front_safe"} =>
        \A l \in Lists, v \in Values, a \in AllocOutcomes(Mem) :
            PushBackSafeWith(l, v, a) \/ PushFrontSafeWith(l, v, a) =>
                /\ ~fault'
                /\ a = NULL =>
                       /\ ~last'.res.is_ok
                       /\ last'.res.err.code = Z_ENOMEM
                       /\ lists'[l] = lists[l]
                       /\ UNCHANGED <<lists, nodes, live>>
                /\ a # NULL =>
                       /\ last'.res.is_ok
                       /\ last'.res = zres_ok
                       /\ lists'[l].length = lists[l].length + 1
                       /\ live' = live \cup {a}
                       /\ nodes'[a].value = v

\* C20: a safe push reports Z_ENOMEM and changes nothing when the allocation
\* fails and reports success when it succeeds, at every safe push step
C20_SafePushOutOfMemory == [][C20_Step]_vars

\* a push_front_safe has just failed with Z_ENOMEM on a full heap
C20_Witness ==
    /\ last.op = "push_front_safe"
    /\ ~last.res.is_ok
    /\ last.res.err.code = Z_ENOMEM
    /\ live = Nodes
    /\ \E l \in Lists : lists[l].length = 2

\* the Z_EEMPTY failure of the safe API, returned with the memory untouched
EmptyFailure ==
    /\ ~last'.res.is_ok
    /\ last'.res.err.code = Z_EEMPTY
    /\ last'.freed = 0
    /\ UNCHANGED <<lists, nodes, live, detached>>

\* C21: a safe pop_back, pop_front, front or back on an empty list returns a
\* failure Result whose error code is Z_EEMPTY and leaves the list unchanged;
\* on a non-empty list front_safe/back_safe return success carrying the
\* head/tail value without changing the list.
C21_Step ==
    last'.op \in {"pop_back_safe", "pop_front_safe", "front_safe", "back_safe"} =>
        \A l \in Lists :
            /\ ~fault'
            /\ (PopBackSafe(l) \/ PopFrontSafe(l) \/ FrontSafe(l) \/ BackSafe(l))
                   /\ lists[l].length = 0 => EmptyFailure
            /\ FrontSafe(l) /\ lists[l].length > 0 =>
                   /\ last'.res = Res_ok(nodes[lists[l].head].value)
                   /\ last'.res.val = ValuesOf(Mem, l)[1]
                   /\ UNCHANGED <<lists, nodes, live, detached>>
            /\ BackSafe(l) /\ lists[l].length > 0 =>
                   /\ last'.res = Res_ok(nodes[lists[l].tail].value)
                   /\ last'.res.val = ValuesOf(Mem, l)[lists[l].length]
                   /\ UNCHANGED <<lists, nodes, live, detached>>

\* C21: the safe reads and pops report Z_EEMPTY on an empty list and the safe
\* reads return the end values of a non-empty one, at every such step
C21_SafeEmptyFailure == [][C21_Step]_vars

\* back_safe has just returned the tail value 2 of a list whose head holds 1
C21_WitnessRead ==
    /\ last.op = "back_safe"
    /\ last.res = Res_ok(2)
    /\ \E l \in Lists : lists[l].length = 3 /\ ValuesOf(Mem, l) = <<1, 1, 2>>

\* pop_front_safe has just failed with Z_EEMPTY on an empty list while the
\* other list holds nodes
C21_Witness ==
    /\ last.op = "pop_front_safe"
    /\ ~last.res.is_ok /\ last.res.err.code = Z_EEMPTY
    /\ \E l \in Lists : lists[l] = EmptyList
    /\ \E l \in Lists : lists[l].length = 2

\* C22: the raw and safe tiers agree: from every list state and allocator
\* outcome a safe push_back/push_front/pop_back/pop_front leaves the memory in
\* exactly the state the raw operation leaves it in, and the safe operation
\* reports failure exactly when the raw push returns a non-OK code or the raw
\* pop is a no-op on an empty list.
C22_Step ==
    /\ last'.op \in {"push_back_safe", "push_front_safe"} =>
           \A l \in Lists, v \in Values, a \in AllocOutcomes(Mem) :
               /\ PushBackSafeWith(l, v, a) =>
                      LET raw == zlist_push_back(Mem, l, v, a)
                      IN /\ Mem' = raw.m
                         /\ ~last'.res.is_ok <=> raw.ret # Z_OK
               /\ PushFrontSafeWith(l, v, a) =>
                      LET raw == zlist_push_front(Mem, l, v, a)
                      IN /\ Mem' = raw.m
                         /\ ~last'.res.is_ok <=> raw.ret # Z_OK
    /\ last'.op \in {"pop_back_safe", "pop_front_safe"} =>
           \A l \in Lists :
               /\ PopBackSafe(l) =>
                      LET raw == zlist_pop_back(Mem, l)
                      IN /\ Mem' = raw
                         /\ ~last'.res.is_ok <=> lists[l].length = 0
                         /\ ~last'.res.is_ok <=> raw = Mem
                         /\ last'.freed = Cardinality(live \ raw.live)
               /\ PopFrontSafe(l) =>
                      LET raw == zlist_pop_front(Mem, l)
                      IN /\ Mem' = raw
                         /\ ~last'.res.is_ok <=> lists[l].length = 0
                         /\ ~last'.res.is_ok <=> raw = Mem
                         /\ last'.freed = Cardinality(live \ raw.live)

\* C22: a safe push or pop does to the memory what the raw one does and fails
\* exactly when the raw one did nothing, at every safe push or pop step
C22_TiersAgree == [][C22_Step]_vars

\* pop_back_safe has just succeeded and freed the tail of a three-element list
C22_Witness ==
    /\ last.op = "pop_back_safe"
    /\ last.res.is_ok
    /\ last.freed = 1
    /\ \E l \in Lists : lists[l].length = 2 /\ ValuesOf(Mem, l) = <<1, 2>>

\* the elements of the walk q whose iteration, counted by at, is not in Removing
Kept(q, Removing, at(_)) ==
    LET keep(n) == \E i \in 1..Len(q) : q[i] = n /\ at(i) \notin Removing
    IN SelectSeq(q, keep)

\* what a loop over list l that was to leave the walk rest must have left:
\* exactly those nodes, in order both ways, and a well-formed handle
LoopLeaves(l, old, rest) ==
    /\ ~fault'
    /\ zlist_foreach(Mem', l) = rest
    /\ zlist_foreach_rev(Mem', l) = Rev(rest)
    /\ \A i \in 1..Len(rest) : nodes'[rest[i]].value = nodes[rest[i]].value
    /\ lists'[l].length = Len(rest)
    /\ lists'[l].head = First(rest)
    /\ lists'[l].tail = Last(rest)
    /\ rest = <<>> => lists'[l] = EmptyList
    /\ live' = live \ (Range(old) \ Range(rest))
    /\ last'.freed = Len(old) - Len(rest)
    /\ \A k \in Lists \ {l} : lists'[k] = lists[k]
    /\ \A n \in Range(rest) :
           /\ nodes'[n].prev # NULL => nodes'[nodes'[n].prev].next = n
           /\ nodes'[n].next # NULL => nodes'[nodes'[n].next].prev = n

\* C23: a safe forward or reverse traversal whose body removes the current
\* node at any subset of its iterations visits every node that was in the list
\* at loop start exactly once, in order, never reads a deallocated node,
\* terminates, and leaves exactly the non-removed nodes in their original
\* order with the list well formed (empty when every node was removed).
C23_Step ==
    /\ last'.op = "foreach_safe" =>
           \A l \in Lists :
               last'.removing \subseteq Iterations(l)
                   /\ ForeachSafe(l, last'.removing) =>
                   \A old \in {zlist_foreach(Mem, l)} :
                       \A rest \in {Kept(old, last'.removing, LAMBDA i : i)} :
                           /\ last'.visited = old
                           /\ LoopLeaves(l, old, rest)
    /\ last'.op = "foreach_rev_safe" =>
           \A l \in Lists :
               last'.removing \subseteq Iterations(l)
                   /\ ForeachRevSafe(l, last'.removing) =>
                   \A old \in {zlist_foreach(Mem, l)} :
                       \A rest \in {Kept(old, last'.removing,
                                          LAMBDA i : Len(old) + 1 - i)} :
                           /\ last'.visited = Rev(old)
                           /\ LoopLeaves(l, old, rest)

\* C23: the safe loops visit every node once and leave the nodes not removed,
\* at every loop
C23_SafeTraversalRemoval == [][C23_Step]_vars

\* a foreach_safe has just visited three nodes and removed the first and the
\* last of them
C23_Witness ==
    /\ last.op = "foreach_safe"
    /\ Len(last.visited) = 3
    /\ last.removing = {1, 3}
    /\ last.freed = 2
    /\ \E l \in Lists :
           /\ lists[l].length = 1
           /\ lists[l].head = last.visited[2]

\* C24: across any sequence of wrapper operations on any number of containers,
\* with the allocator allowed to fail at any push, every node allocated is
\* deallocated exactly once by the time all containers' lifetimes have ended,
\* and no node is deallocated twice or accessed after deallocation.
C24_NoLeakNoDoubleFree ==
    /\ ~fault
    /\ alive = {} => live = {}

\* the contents of container l: its size, its nodes in order and their values
Contents(m, l) == <<m.lists[l].length, zlist_foreach(m, l), ValuesOf(m, l)>>

\* what a copy of other into l that returned normally must have left
CopiedFrom(l, other) ==
    /\ ~fault'
    /\ ValuesOf(Mem', l) = ValuesOf(Mem, other)
    /\ lists'[l].length = lists[other].length
    /\ Len(zlist_foreach(Mem', l)) = lists[other].length
    /\ Contents(Mem', other) = Contents(Mem, other)
    /\ NodesOf(Mem', l) \cap NodesOf(Mem', other) = {}
    /\ NodesOf(Mem', l) \subseteq live'
    /\ l \in alive' /\ other \in alive'

\* no two containers within their lifetime hold a node in common
C25_NoSharing ==
    \A l \in alive, k \in alive : l # k => NodesOf(Mem, l) \cap NodesOf(Mem, k) = {}

\* C25: copy construction and copy assignment give the destination the same
\* element sequence and size as the source using newly allocated nodes shared
\* with no other container, so any later mutation of either container leaves
\* the other's size and contents unchanged; assigning a container to itself
\* changes nothing.
C25_Step ==
    /\ last'.op = "list(const list &)" /\ last'.thrown = NoThrow =>
           \A l \in Lists \ alive, other \in alive :
               \A failAt \in FailPoints(lists[other].length) :
                   ConstructCopy(l, other, failAt) => CopiedFrom(l, other)
    /\ last'.op = "operator=(const list &)" /\ last'.thrown = NoThrow =>
           \A l \in alive, other \in alive :
               \A failAt \in FailPoints(lists[other].length) :
                   AssignCopy(l, other, failAt) =>
                       /\ l # other => CopiedFrom(l, other)
                       /\ l = other =>
                              UNCHANGED <<lists, nodes, live, alive>> /\ ~fault'
    /\ last'.op \in {"list::push_back", "list::pop_front", "~list()"} =>
           \A l \in alive, k \in alive :
               lists'[l] # lists[l] /\ k # l =>
                   /\ lists'[k] = lists[k]
                   /\ \A n \in NodesOf(Mem, k) : nodes'[n] = nodes[n] /\ n \in live'

\* C25: a copy is deep and the two containers stay independent, in every state
\* and at every step
C25_DeepCopy == []C25_NoSharing /\ [][C25_Step]_vars

\* a copy constructor has just returned and both containers hold the element 2
\* in a node of their own
C25_Witness ==
    /\ last.op = "list(const list &)"
    /\ last.thrown = NoThrow
    /\ alive = Lists
    /\ \A l \in Lists : ValuesOf(Mem, l) = <<2>>
    /\ lists[1].head # lists[2].head

\* what a move of other into l must have left: l holds other's former chain,
\* node for node, other is empty, and exactly the nodes of Gone were freed
MovedFrom(l, other, Gone) ==
    /\ ~fault'
    /\ last'.thrown = NoThrow
    /\ zlist_foreach(Mem', l) = zlist_foreach(Mem, other)
    /\ ValuesOf(Mem', l) = ValuesOf(Mem, other)
    /\ lists'[l] = lists[other]
    /\ lists'[other] = EmptyList
    /\ list_size(Mem', other) = 0 /\ list_empty(Mem', other)
    /\ \A n \in NodesOf(Mem, other) : nodes'[n] = nodes[n]
    /\ live' = live \ Gone
    /\ last'.freed = Cardinality(Gone)
    /\ l \in alive' /\ other \in alive'

\* C26 as stated: every move assignment leaves its source empty with size 0
C26_SourceAlwaysEmptied ==
    [][last'.op = "operator=(list &&)" =>
           \A l \in alive, other \in alive :
               AssignMove(l, other) => lists'[other] = EmptyList]_vars

\* C26, amended: move construction, and move assignment between two distinct
\* containers, leave the destination holding exactly the source's former node
\* chain (same nodes, same order, same size) and the source empty with size 0,
\* move assignment having deallocated the destination's former nodes; a
\* container move-assigned to itself is left unchanged.
C26_Step ==
    /\ last'.op = "list(list &&)" =>
           \A l \in Lists \ alive, other \in alive :
               ConstructMove(l, other) => MovedFrom(l, other, {})
    /\ last'.op = "operator=(list &&)" =>
           \A l \in alive, other \in alive :
               AssignMove(l, other) =>
                   /\ l # other => MovedFrom(l, other, NodesOf(Mem, l))
                   /\ l = other =>
                          UNCHANGED <<lists, nodes, live, alive>> /\ ~fault'

\* C26, amended: a move transfers the chain between distinct containers and a
\* self-move changes nothing, at every move
C26_MoveTransfers == [][C26_Step]_vars

\* a move assignment has just freed the destination's node and given it the
\* two nodes of the source
C26_Witness ==
    /\ last.op = "operator=(list &&)"
    /\ last.freed = 1
    /\ alive = Lists
    /\ \E l \in Lists : lists[l].length = 2 /\ ValuesOf(Mem, l) = <<1, 2>>
    /\ \E l \in Lists : lists[l] = EmptyList

\* C27: a default-constructed wrapper container is empty (size 0), and a
\* container constructed from an ordered sequence of k values has size k with
\* forward traversal yielding the values in the given order (front is the
\* first value, back the last).
C27_Step ==
    /\ last'.op = "list()" =>
           \A l \in Lists \ alive :
               Construct(l) =>
                   /\ l \in alive'
                   /\ last'.thrown = NoThrow
                   /\ list_size(Mem', l) = 0
                   /\ list_empty(Mem', l)
                   /\ zlist_foreach(Mem', l) = <<>>
                   /\ lists'[l] = EmptyList
    /\ last'.op = "list(init)" /\ last'.thrown = NoThrow =>
           \A l \in Lists \ alive, init \in InitializerLists :
               \A failAt \in FailPoints(Len(init)) :
                   \A r \in {list_ctor_init(Mem, l, init, failAt)} :
                       r.thrown = NoThrow /\ Constructed(l, r, "list(init)") =>
                       /\ ~fault'
                       /\ l \in alive'
                       /\ list_size(Mem', l) = Len(init)
                       /\ ValuesOf(Mem', l) = init
                       /\ init # <<>> =>
                              /\ list_front(Mem', l) =
                                     [m |-> Mem', thrown |-> NoThrow, ret |-> init[1]]
                              /\ list_back(Mem', l) =
                                     [m |-> Mem', thrown |-> NoThrow,
                                      ret |-> init[Len(init)]]

\* C27: the constructors give the empty container and the given sequence, at
\* every construction
C27_Constructors == [][C27_Step]_vars

\* a container has just been constructed from the sequence 1, 2, 2
C27_Witness ==
    /\ last.op = "list(init)"
    /\ last.thrown = NoThrow
    /\ \E l \in alive : lists[l].length = 3 /\ ValuesOf(Mem, l) = <<1, 2, 2>>

\* what front, back, pop_front and pop_back owe the caller of container l
ThrowsOnlyWhenEmpty(l) ==
    IF zlist_foreach(Mem, l) = <<>>
    THEN /\ last'.thrown = out_of_range
         /\ last'.thrown # bad_alloc
         /\ last'.freed = 0
         /\ lists'[l] = EmptyList
         /\ UNCHANGED <<lists, nodes, live, fault, alive>>
    ELSE last'.thrown = NoThrow

\* C28: on an empty wrapper container front, back, pop_front and pop_back
\* raise out_of_range, which is not bad_alloc, and leave the container empty
\* and unchanged; on a non-empty container they raise nothing.
C28_Step ==
    /\ last'.op = "front" =>
           \A l \in alive : ListFront(l) => ThrowsOnlyWhenEmpty(l)
    /\ last'.op = "back" =>
           \A l \in alive : ListBack(l) => ThrowsOnlyWhenEmpty(l)
    /\ last'.op = "list::pop_front" =>
           \A l \in alive : ListPopFront(l) => ThrowsOnlyWhenEmpty(l)
    /\ last'.op = "list::pop_back" =>
           \A l \in alive : ListPopBack(l) => ThrowsOnlyWhenEmpty(l)

\* C28: the four end operations throw exactly on the empty container, at
\* every call
C28_EmptyThrows == [][C28_Step]_vars

\* pop_back has just thrown on an empty container while the other holds values
C28_Witness ==
    /\ last.op = "list::pop_back"
    /\ last.thrown = out_of_range
    /\ alive = Lists
    /\ \E l \in Lists : lists[l] = EmptyList
    /\ \E l \in Lists : lists[l].length = 2

\* what a push of v at the given end owes the caller when ZLIST_MALLOC gave a
PushThrows(l, v, a, pushed(_)) ==
    /\ last'.thrown = bad_alloc <=> a = NULL
    /\ last'.thrown \in {bad_alloc, NoThrow}
    /\ a = NULL =>
           /\ list_size(Mem', l) = list_size(Mem, l)
           /\ ValuesOf(Mem', l) = ValuesOf(Mem, l)
           /\ UNCHANGED <<lists, nodes, live, fault, alive>>
    /\ a # NULL =>
           /\ list_size(Mem', l) = list_size(Mem, l) + 1
           /\ ValuesOf(Mem', l) = pushed(ValuesOf(Mem, l))

\* C29: the wrapper's push_back and push_front raise bad_alloc exactly when
\* the engine cannot allocate, never dropping the value silently, and then
\* leave the container's size and contents unchanged.
C29_Step ==
    /\ last'.op = "list::push_back" =>
           \A l \in alive, v \in Values, a \in AllocOutcomes(Mem) :
               Method(l, list_push_back(Mem, l, v, a), "list::push_back", NULL)
                   => PushThrows(l, v, a, LAMBDA s : Append(s, v))
    /\ last'.op = "list::push_front" =>
           \A l \in alive, v \in Values, a \in AllocOutcomes(Mem) :
               Method(l, list_push_front(Mem, l, v, a), "list::push_front", NULL)
                   => PushThrows(l, v, a, LAMBDA s : <<v>> \o s)

\* C29: a push throws bad_alloc exactly on allocation failure, at every call
C29_PushThrows == [][C29_Step]_vars

\* push_front has just thrown bad_alloc on a container that keeps its values
C29_Witness ==
    /\ last.op = "list::push_front"
    /\ last.thrown = bad_alloc
    /\ \E l \in alive : ValuesOf(Mem, l) = <<1, 2>>

\* what erase(pos) owes the caller of container l whose traversal was old
Erased(l, pos, old) ==
    IF pos = NULL
    THEN /\ last'.thrown = out_of_range
         /\ last'.freed = 0
         /\ UNCHANGED <<lists, nodes, live, fault, alive>>
    ELSE /\ last'.thrown = NoThrow
         /\ ~fault'
         /\ zlist_foreach(Mem', l) = Without(old, pos)
         /\ \A n \in Range(old) \ {pos} : Val(Mem', n) = Val(Mem, n)
         /\ live' = live \ {pos}
         /\ last'.freed = 1
         /\ list_size(Mem', l) = list_size(Mem, l) - 1
         /\ last'.ret = IF IndexOf(old, pos) = Len(old) THEN NULL
                        ELSE old[IndexOf(old, pos) + 1]
         /\ \A other \in Lists \ {l} : lists'[other] = lists[other]

\* C30: the wrapper's erase at end() raises out_of_range and leaves the
\* container unchanged; at an element position it unlinks and deallocates that
\* element, decreases size by 1 and returns an iterator to the element that
\* followed it, which is end() when the erased element was the last.
C30_Step ==
    last'.op = "erase" =>
        \A l \in alive :
            \A old \in {zlist_foreach(Mem, l)} :
                \A pos \in Range(old) \cup {NULL} :
                    ListErase(l, pos) => Erased(l, pos, old)

\* C30: erase throws at end() and removes exactly the element elsewhere, at
\* every call
C30_Erase == [][C30_Step]_vars

\* erase has just removed the middle element of three and returned the third
C30_Witness ==
    /\ last.op = "erase"
    /\ last.thrown = NoThrow
    /\ last.freed = 1
    /\ \E l \in alive :
           /\ lists[l].length = 2
           /\ last.ret = lists[l].tail
           /\ last.ret # lists[l].head

\* erase has just removed the last element and returned end()
C30_WitnessEnd ==
    /\ last.op = "erase"
    /\ last.thrown = NoThrow
    /\ last.ret = NULL
    /\ \E l \in alive : lists[l].length = 1

\* erase has just thrown at end() on a container that keeps its two elements
C30_WitnessThrow ==
    /\ last.op = "erase"
    /\ last.thrown = out_of_range
    /\ \E l \in alive : lists[l].length = 2

\* what insert_after(pos, v) owes the caller of container l whose traversal was
\* old, when ZLIST_MALLOC gave a
InsertedAt(l, pos, v, a, old) ==
    IF a = NULL
    THEN /\ last'.thrown = bad_alloc
         /\ UNCHANGED <<lists, nodes, live, fault, alive>>
    ELSE /\ last'.thrown = NoThrow
         /\ ~fault'
         /\ last'.ret \notin live
         /\ live' = live \cup {last'.ret}
         /\ Val(Mem', last'.ret) = v
         /\ zlist_foreach(Mem', l) =
                InsertedAfter(old, IF pos = NULL THEN 0 ELSE IndexOf(old, pos),
                              last'.ret)
         /\ \A n \in Range(old) : Val(Mem', n) = Val(Mem, n)
         /\ pos = NULL => last'.ret = lists'[l].head

\* C31: the wrapper's insert_after(pos, v) raises bad_alloc on exhaustion and
\* leaves the container unchanged; otherwise it returns an iterator to the
\* newly inserted element holding v, for every pos including end(), where the
\* element goes to the front and the iterator returned equals begin().
C31_Step ==
    last'.op = "list::insert_after" =>
        \A l \in alive :
            \A old \in {zlist_foreach(Mem, l)} :
                \A pos \in Range(old) \cup {NULL}, v \in Values,
                   a \in AllocOutcomes(Mem) :
                    Method(l, list_insert_after(Mem, l, pos, v, a),
                           "list::insert_after",
                           list_insert_after(Mem, l, pos, v, a).ret)
                        => InsertedAt(l, pos, v, a, old)

\* C31: insert_after throws on exhaustion and returns the new element
\* otherwise, at every call
C31_InsertAfter == [][C31_Step]_vars

\* insert_after has just put a new element between the two of a container
C31_Witness ==
    /\ last.op = "list::insert_after"
    /\ last.thrown = NoThrow
    /\ \E l \in alive :
           /\ lists[l].length = 3
           /\ last.ret \notin {lists[l].head, lists[l].tail}
           /\ last.ret \in NodesOf(Mem, l)

\* insert_after at end() has just put a new element in front of another
C31_WitnessEnd ==
    /\ last.op = "list::insert_after"
    /\ last.thrown = NoThrow
    /\ \E l \in alive :
           /\ lists[l].length = 2
           /\ last.ret = lists[l].head
           /\ Nxt(Mem, last.ret) # NULL /\ Nxt(Mem, last.ret) < last.ret

\* insert_after has just thrown bad_alloc
C31_WitnessThrow ==
    /\ last.op = "list::insert_after"
    /\ last.thrown = bad_alloc
    /\ \E l \in alive : lists[l].length = 2

\* the iterator after k applications of operator++, and of operator--
RECURSIVE Advance(_, _, _)
Advance(m, i, k) == IF k = 0 THEN i ELSE Advance(m, iterator_inc(m, i).it, k - 1)

RECURSIVE Retreat(_, _, _)
Retreat(m, i, k) == IF k = 0 THEN i ELSE Retreat(m, iterator_dec(m, i).it, k - 1)

\* the element after and the element before position p of the sequence q of
\* nodes, NULL for end()
Following(q, p) ==
    IF p = NULL \/ IndexOf(q, p) = Len(q) THEN NULL ELSE q[IndexOf(q, p) + 1]
Preceding(q, p) ==
    IF p = NULL THEN (IF q = <<>> THEN NULL ELSE q[Len(q)])
    ELSE IF IndexOf(q, p) = 1 THEN NULL ELSE q[IndexOf(q, p) - 1]

\* C32: wrapper iterators are bidirectional over the whole sequence:
\* incrementing from begin() visits every element in order and reaches end()
\* after exactly size() increments, and decrementing from end() yields the last
\* element and then each earlier element in reverse order.
C32_Step ==
    /\ last'.op = "begin" =>
           \A l \in alive :
               \A old \in {zlist_foreach(Mem, l)} :
                   Begin(l) =>
                       /\ Len(old) = list_size(Mem, l)
                       /\ \A k \in 0..Len(old) :
                              Advance(Mem', cursor', k) =
                                  IF k < Len(old) THEN iterator(l, old[k + 1])
                                  ELSE list_end(Mem', l)
    /\ last'.op = "end" =>
           \A l \in alive :
               \A old \in {zlist_foreach(Mem, l)} :
                   End(l) =>
                       /\ cursor' = list_end(Mem, l)
                       /\ \A k \in 1..Len(old) :
                              Retreat(Mem', cursor', k) =
                                  iterator(l, old[Len(old) + 1 - k])
    /\ last'.op = "operator++" /\ Increment =>
           /\ ~fault'
           /\ cursor' = iterator(cursor.list_ptr,
                                 Following(zlist_foreach(Mem, cursor.list_ptr),
                                           cursor.current))
           /\ UNCHANGED <<lists, nodes, live>>
    /\ last'.op = "operator--" /\ Decrement =>
           /\ ~fault'
           /\ cursor' = iterator(cursor.list_ptr,
                                 Preceding(zlist_foreach(Mem, cursor.list_ptr),
                                           cursor.current))
           /\ UNCHANGED <<lists, nodes, live>>

\* C32: iterators walk the whole sequence in both directions, at every step
C32_Bidirectional == [][C32_Step]_vars

\* the iterator has just been decremented down to the first of three elements
C32_Witness ==
    /\ last.op = "operator--"
    /\ cursor.list_ptr \in alive
    /\ lists[cursor.list_ptr].length = 3
    /\ cursor.current = lists[cursor.list_ptr].head

\* the iterator has just been incremented to end() of a container of three
C32_WitnessEnd ==
    /\ last.op = "operator++"
    /\ cursor.list_ptr \in alive
    /\ lists[cursor.list_ptr].length = 3
    /\ cursor.current = NULL

\* the calls of the wrapper that change a container, and those that may
\* remove an element
Modifiers ==
    {"list::push_back", "list::push_front", "list::pop_back", "list::pop_front",
     "list::insert_after", "erase", "list::reverse", "list::splice"}
Removers == {"list::pop_back", "list::pop_front", "erase"}

\* an iterator of container l0 that referred, before the call, to the element
\* now at position i of the traversal q still works after the call
StaysValid(l0, q, i) ==
    /\ \A r \in {iterator_deref(Mem', iterator(l0, q[i]))} :
           ~r.m.fault /\ r.ret = Val(Mem, q[i])
    /\ \A r \in {iterator_inc(Mem', iterator(l0, q[i]))} :
           /\ ~r.m.fault
           /\ r.it = iterator(l0, IF i = Len(q) THEN NULL ELSE q[i + 1])
    /\ \A r \in {iterator_dec(Mem', iterator(l0, q[i]))} :
           /\ ~r.m.fault
           /\ r.it = iterator(l0, IF i = 1 THEN NULL ELSE q[i - 1])

\* C33: an iterator referring to an element stays valid (same live node, same
\* value, stepping follows the list's current order) after any push, pop,
\* insert_after, erase, reverse or splice that does not remove that element;
\* only an iterator whose own referent node was removed is invalidated.
C33_Step ==
    last'.op \in Modifiers =>
        /\ ~fault'
        /\ last'.freed = Cardinality(live \ live')
        /\ last'.freed <= (IF last'.op \in Removers THEN 1 ELSE 0)
        /\ last'.thrown # NoThrow => UNCHANGED <<lists, nodes, live>>
        /\ last'.thrown = NoThrow =>
               \A old \in {[l \in Lists |-> zlist_foreach(Mem, l)]},
                  new \in {[l \in Lists |-> zlist_foreach(Mem', l)]} :
                   /\ \A l0 \in alive :
                          Range(old[l0]) \cap live' \subseteq
                              UNION {Range(new[l]) : l \in alive}
                   /\ \A l \in alive :
                          \A i \in 1..Len(new[l]) :
                              \A l0 \in alive :
                                  new[l][i] \in Range(old[l0]) =>
                                      /\ new[l][i] \in live'
                                      /\ StaysValid(l0, new[l], i)

\* C33: iterators to elements that were not removed stay valid, at every call
C33_IteratorsStayValid == [][C33_Step]_vars

\* erase has just removed the middle element of three: iterators to its two
\* neighbours are still good
C33_Witness ==
    /\ last.op = "erase"
    /\ last.freed = 1
    /\ \E l \in alive :
           /\ lists[l].length = 2
           /\ last.ret = lists[l].tail
           /\ lists[l].head > lists[l].tail

\* splice has just moved two elements behind another container's element
C33_WitnessSplice ==
    /\ last.op = "list::splice"
    /\ \E l \in alive : lists[l].length = 3
    /\ \E l \in alive : lists[l] = EmptyList
    /\ alive = Lists

\* reverse has just reversed a container of three elements
C33_WitnessReverse ==
    /\ last.op = "list::reverse"
    /\ \E l \in alive : ValuesOf(Mem, l) = <<2, 2, 1>> /\ lists[l].head = 3

\* the statements that wrap a Result-returning call in a check or a try
CheckedCalls ==
    {"check_ctx(list_push_back_safe)", "check(list_pop_back_safe)",
     "try_into(list_front_safe)", "try_into(list_back_safe)"}
Statements == CheckedCalls \cup {"list_clear", "return zres_ok()"}

\* C34: when a Result-returning list operation wrapped in a check/try fails,
\* the enclosing function returns a failure to its caller at once, with the
\* same error code and originating location, and none of its later statements
\* execute; when the operation succeeds, execution goes on with the next
\* statement.
C34_Step ==
    /\ last'.op \in CheckedCalls =>
           /\ frame.pc = "body"
           /\ last'.op # "check_ctx(list_push_back_safe)" =>
                  (last'.res.is_ok <=> lists[frame.nums].length > 0)
           /\ last'.op = "check_ctx(list_push_back_safe)" =>
                  (last'.res.is_ok <=>
                      lists'[frame.nums].length = lists[frame.nums].length + 1)
           /\ IF last'.res.is_ok
              THEN /\ frame' = [frame EXCEPT !.line = @ + 1]
                   /\ frame'.pc = "body"
              ELSE /\ frame'.pc = "returned"
                   /\ ~frame'.ret.is_ok
                   /\ frame'.ret.err.code = last'.res.err.code
                   /\ frame'.ret.err.code \in {Z_ENOMEM, Z_EEMPTY}
                   /\ frame'.ret.err.line = last'.res.err.line
                   /\ frame'.ret.err.line = frame.line
    /\ frame.pc = "returned" =>
           /\ last'.op \notin Statements
           /\ frame' = frame \/ (frame'.pc = "body" /\ frame'.line = 1)

\* C34: a failed checked call returns its error from the function at once, at
\* every statement
C34_ShortCircuit == [][C34_Step]_vars

\* the third statement, a checked pop on the emptied list, has just made the
\* function return Z_EEMPTY
C34_Witness ==
    /\ last.op = "check(list_pop_back_safe)"
    /\ frame.pc = "returned"
    /\ ~frame.ret.is_ok
    /\ frame.ret.err.code = Z_EEMPTY
    /\ frame.ret.err.line = 3

\* a checked push has just succeeded as second statement
C34_WitnessGoesOn ==
    /\ last.op = "check_ctx(list_push_back_safe)"
    /\ last.res.is_ok
    /\ frame.pc = "body"
    /\ frame.line = 3

\* C35: a list declared with zlist_autofree has every one of its nodes
\* deallocated exactly once when its scope is left, whether by the final
\* return or by an early return of a propagated failure.
C35_Step ==
    frame.pc = "body" /\ frame'.pc = "returned" =>
        \A own \in {NodesOf(Mem, frame.nums)} :
            /\ ~fault'
            /\ lists'[frame.nums] = EmptyList
            /\ live' = live \ own
            /\ last'.freed = Cardinality(own)
            /\ \A l \in Lists \ {frame.nums} : lists'[l] = lists[l]
            /\ \A n \in live' : nodes'[n] = nodes[n]

\* nothing of the list outlives the function
C35_NothingLeft ==
    frame.pc = "returned" =>
        /\ ~fault
        /\ lists[frame.nums] = EmptyList
        /\ live = UNION {NodesOf(Mem, l) : l \in Lists \ {frame.nums}}

\* C35: leaving the scope frees the list's nodes, at every return
C35_Autofree == []C35_NothingLeft /\ [][C35_Step]_vars

\* a failed push has just made the function return and its two nodes are freed
C35_Witness ==
    /\ frame.pc = "returned"
    /\ ~frame.ret.is_ok
    /\ frame.ret.err.code = Z_ENOMEM
    /\ last.freed = 2
    /\ live # {}

\* the function has just returned zres_ok() and its two nodes are freed
C35_WitnessNormal ==
    /\ last.op = "return zres_ok()"
    /\ frame.ret.is_ok
    /\ last.freed = 2

\* memory d.m, left by detach_node(l, n) that returned d.ret, and memory r,
\* left by remove_node(l, n), differ in nothing but the fate of n
SameButFreed(d, r, n) ==
    /\ r.lists = d.m.lists
    /\ \A k \in Nodes \ {n} : r.nodes[k] = d.m.nodes[k]
    /\ r.fault = d.m.fault
    /\ r.live = d.m.live \ {n}
    /\ n \in d.m.live
    /\ d.ret = n
    /\ Prev(d.m, n) = NULL /\ Nxt(d.m, n) = NULL

\* C37: for any list L and node n of L, detach_node(L, n) and remove_node(L, n)
\* leave L in the identical state (head, tail, length, links among the
\* remaining nodes); they differ only in that remove_node deallocates n while
\* detach_node returns it isolated.
C37_Step ==
    /\ last'.op = "remove_node" =>
           \A l \in Lists :
               \A n \in NodesOf(Mem, l) :
                   \A r \in {zlist_remove_node(Mem, l, n)} :
                       Commit(r) =>
                           \A d \in {zlist_detach_node(Mem, l, n)} :
                               SameButFreed(d, r, n) /\ Val(d.m, n) = Val(Mem, n)
    /\ last'.op = "detach_node" =>
           \A l \in Lists :
               \A n \in NodesOf(Mem, l) :
                   \A d \in {zlist_detach_node(Mem, l, n)} :
                       Commit(d.m) /\ last'.ret = d.ret =>
                           /\ SameButFreed(d, zlist_remove_node(Mem, l, n), n)
                           /\ Val(d.m, n) = Val(Mem, n)

\* C37: detach_node and remove_node agree on the list, at every call of either
C37_DetachRemoveAgree == [][C37_Step]_vars

\* remove_node has just taken the head of a list of three
C37_Witness ==
    /\ last.op = "remove_node"
    /\ last.freed = 1
    /\ \E l \in Lists : lists[l].length = 2 /\ lists[l].head > 1 /\ 1 \notin live

\* detach_node has just taken the middle node of a list of three
C37_WitnessDetach ==
    /\ last.op = "detach_node"
    /\ last.ret \in detached
    /\ \E l \in Lists : lists[l].length = 2 /\ last.ret \notin NodesOf(Mem, l)

\* C38: remove_node(L, none) and detach_node(L, none) are no-ops on every list
\* L: head, tail, length and all links are unchanged, nothing is deallocated,
\* and detach_node returns none.
C38_Step ==
    /\ last'.op = "remove_node" =>
           \A l \in Lists :
               RemoveNode(l, NULL) =>
                   /\ UNCHANGED <<lists, nodes, live, fault, detached>>
                   /\ last'.freed = 0
    /\ last'.op = "detach_node" =>
           \A l \in Lists :
               DetachNode(l, NULL) =>
                   /\ UNCHANGED <<lists, nodes, live, fault, detached>>
                   /\ last'.ret = NULL

\* C38: a call with no node changes nothing, at every such call
C38_NullNoOp == [][C38_Step]_vars

\* detach_node(L, NULL) has just returned NULL while two lists hold nodes
C38_Witness ==
    /\ last.op = "detach_node"
    /\ last.ret = NULL
    /\ \A l \in Lists : lists[l].length >= 1

\* remove_node(L, NULL) has just returned while a list holds three nodes
C38_WitnessRemove ==
    /\ last.op = "remove_node"
    /\ last.freed = 0
    /\ \E l \in Lists : lists[l].length = 3

\* the query operations, and the operations that only relink nodes
Queries == {"is_empty", "at", "head", "tail", "front_safe", "back_safe"}
Relinkers == {"reverse", "splice", "detach_node"}

\* C39: the queries is_empty, at, head, tail, front_safe and back_safe leave
\* every list handle and every node unchanged, and reverse, splice and
\* detach_node neither allocate nor deallocate any node nor change any node's
\* value: the live nodes and their values are the same before and after.
C39_Step ==
    /\ last'.op \in Queries => UNCHANGED <<lists, nodes, live, fault, detached>>
    /\ last'.op \in Relinkers =>
           /\ ~fault'
           /\ live' = live
           /\ \A n \in live : Val(Mem', n) = Val(Mem, n)

\* C39: queries change nothing and relinking keeps the nodes and their values,
\* at every call
C39_FrameEffect == [][C39_Step]_vars

\* back_safe has just read the last of three values
C39_Witness ==
    /\ last.op = "back_safe"
    /\ last.res.is_ok
    /\ \E l \in Lists : lists[l].length = 3 /\ last.res.val = Val(Mem, lists[l].tail)

\* reverse has just turned a list of three around
C39_WitnessReverse ==
    /\ last.op = "reverse"
    /\ \E l \in Lists : lists[l].length = 3 /\ lists[l].head = 3 /\ lists[l].tail = 1

\* at has just returned the second node of a list
C39_WitnessAt ==
    /\ last.op = "at"
    /\ \E l \in Lists : lists[l].length = 3 /\ last.ret = Nxt(Mem, lists[l].head)

====
